---- MODULE Spec2Model ----
(***************************************************************************)
(* Novalance backend: wallet-signature login, application acceptance and   *)
(* the KPI state machine, modelled request by request.  Every HTTP handler *)
(* is a little process: each `await db...` of the handler is one step, so  *)
(* that two requests may interleave exactly where the event loop lets      *)
(* them.  The sequential specifications run one request at a time.         *)
(***************************************************************************)
EXTENDS Integers, Sequences, FiniteSets, TLC

\* Bounds of the model.
MaxNonce == 3
MaxTime == 1
MaxIds == 2
MaxEvents == 2

VARIABLES
  users,        \* table users: lower-cased address -> row [nonce]
  nonceCtr,     \* how many nonces generateNonce has produced so far
  now,          \* wall clock (Date.now())
  issued,       \* challenge messages returned by POST /auth/wallet/nonce
  authLog,      \* one entry per token returned by POST /auth/wallet/verify
  tokens,       \* the tokens returned by POST /auth/wallet/verify
  env,          \* process.env as read when lib/jwt is loaded
  projects,     \* table projects: id -> row
  idCtr,        \* how many ids nanoid() has produced so far
  roles,        \* table project_roles: id -> row
  applications, \* table applications: id -> row
  assignments,  \* table assignments: id -> row
  kpis,         \* table kpis: id -> row
  reqs,         \* the requests in flight, one per slot
  activeListeners, \* lib/contracts: Map of vault address -> what start stored
  watches,      \* the live subscriptions of publicClient: id -> vault address
  watchCtr,     \* how many subscriptions watchContractEvent has opened so far
  handled,      \* the calls made to the handlers given to startVaultListener
  vaultCall     \* the last call into the listener module and how it ended

vars == <<users, nonceCtr, now, issued, authLog, tokens, env,
          projects, idCtr, roles, applications, assignments, kpis, reqs,
          activeListeners, watches, watchCtr, handled, vaultCall>>

authVars == <<users, nonceCtr, now, issued, authLog, tokens, env>>
storeVars == <<projects, idCtr, roles, applications, assignments, kpis>>
vaultVars == <<activeListeners, watches, watchCtr, handled, vaultCall>>

\* The listener module as loaded: no listener, no subscription, no call yet.
InitVault ==
  /\ activeListeners = <<>>
  /\ watches = <<>>
  /\ watchCtr = 0
  /\ handled = <<>>
  /\ vaultCall = [op |-> "none", vaultAddress |-> "", threw |-> FALSE]

\* Two requests at most are in flight at once.
Slots == {1, 2}

-----------------------------------------------------------------------------
(* Addresses.  "0xA" is the mixed-case spelling of wallet "0xa".           *)

AuthAddresses == {"0xa", "0xA", "0xb"}
Wallets == {"0xa", "0xb"}

toLowerCase(a) ==
  CASE a = "0xA" -> "0xa"
    [] a = "0xB" -> "0xb"
    [] OTHER -> a

\* viem returns recovered addresses in checksum (mixed) case.
checksumAddress(w) ==
  CASE w = "0xa" -> "0xA"
    [] w = "0xb" -> "0xB"
    [] OTHER -> w

-----------------------------------------------------------------------------
(* lib/crypto                                                              *)

\* nanoid(32): a value never produced before.
generateNonce == nonceCtr + 1

\* The value stored as the user's nonce carries the timestamp of issue;
\* the message is the fixed template over address, nonce and timestamp.
createSignMessage(nonce, address) ==
  [nonce   |-> [n |-> nonce, ts |-> now],
   message |-> [address |-> address, n |-> nonce, ts |-> now]]

recreateMessage(storedNonce, address) ==
  [address |-> address, n |-> storedNonce.n, ts |-> storedNonce.ts]

\* A wallet's personal-message signature over a message.
Sign(wallet, message) == [signer |-> wallet, msg |-> message]

\* recoverAddress: the signer when the hash is the signed one, otherwise an
\* unrelated address.
recoverAddress(message, signature) ==
  IF signature.msg = message THEN checksumAddress(signature.signer)
  ELSE "0xother"

verifySignature(address, message, signature) ==
  toLowerCase(recoverAddress(message, signature)) = toLowerCase(address)

-----------------------------------------------------------------------------
(* Requests.                                                               *)

NoBody == [none |-> TRUE]

\* A request holds, in held, what its handler computed before the await it
\* is suspended on and uses after it: the arguments of the statement it
\* has issued, the value of a call it has made.
IdleReq ==
  [op |-> "none", pc |-> "idle", authorization |-> <<>>, address |-> "",
   target |-> "", body |-> NoBody, snap |-> <<>>, held |-> <<>>, status |-> 0]

NewReq(op, address, target, body) ==
  [op |-> op, pc |-> "read", authorization |-> <<>>, address |-> address,
   target |-> target, body |-> body, snap |-> <<>>, held |-> <<>>, status |-> 0]

Free(s) == reqs[s].pc \in {"idle", "done"}
InFlight == {s \in Slots : ~Free(s)}

\* The answer: what the handler held for its awaits is gone.
Respond(s, code) ==
  reqs' = [reqs EXCEPT ![s].pc = "done", ![s].status = code, ![s].held = <<>>]

\* findFirst on a table keyed by id: zero or one row.
findFirst(table, id) == IF id \in DOMAIN table THEN <<table[id]>> ELSE <<>>

Put(table, id, row) == [k \in DOMAIN table \cup {id} |-> IF k = id THEN row ELSE table[k]]

-----------------------------------------------------------------------------
(* lib/jwt                                                                 *)

\* The environment of a deployment that sets JWT_SECRET, and of one that
\* does not.
ConfiguredEnv == [JWT_SECRET |-> <<"s3cret">>]
BareEnv == [JWT_SECRET |-> <<>>]

DefaultSecret == "default-secret-change-me"

\* const JWT_SECRET = process.env.JWT_SECRET || 'default-secret-change-me'
JWT_SECRET ==
  IF env.JWT_SECRET = <<>> THEN DefaultSecret ELSE env.JWT_SECRET[1]

\* Math.floor(Date.now() / 1000); the clock counts milliseconds.
epoch == now \div 1000

\* The HS256 signature of a payload under a key.
HS256(key, payload) == [key |-> key, over |-> payload]

createToken(address) ==
  LET payload == [address |-> toLowerCase(address), iat |-> epoch,
                  exp |-> epoch + 7 * 24 * 60 * 60]
  IN [payload |-> payload, signature |-> HS256(JWT_SECRET, payload)]

\* Variant: the expiry is not looked at.
verifyTokenIgnoresExp(token) ==
  IF DOMAIN token # {"payload", "signature"} THEN <<>>
  ELSE IF token.signature # HS256(JWT_SECRET, token.payload) THEN <<>>
  ELSE <<token.payload>>

\* jwtVerify throws on a malformed token, on a signature that does not
\* match and on exp <= now; verifyToken turns every throw into null.
verifyToken(token) ==
  IF DOMAIN token # {"payload", "signature"} THEN <<>>
  ELSE IF token.signature # HS256(JWT_SECRET, token.payload) THEN <<>>
  ELSE IF token.payload.exp <= epoch THEN <<>>
  ELSE <<token.payload>>

-----------------------------------------------------------------------------
(* POST /auth/wallet/nonce                                                 *)

NonceStart(s, address) ==
  /\ Free(s)
  /\ nonceCtr + Cardinality({t \in InFlight : reqs[t].pc \in {"read", "check"}}) < MaxNonce
  /\ reqs' = [reqs EXCEPT ![s] = NewReq("nonce", address, "", NoBody)]
  /\ UNCHANGED <<authVars, vaultVars, storeVars>>

\* Lines 18-23: read the user; the nonce is generated and the challenge,
\* with the time in it, is built before the write is awaited.
NonceRead(s) ==
  /\ reqs[s].op = "nonce" /\ reqs[s].pc = "read"
  /\ LET nonce == generateNonce
         signMessageResult == createSignMessage(nonce, reqs[s].address)
     IN reqs' = [reqs EXCEPT ![s].pc = "write",
                             ![s].snap = findFirst(users, toLowerCase(reqs[s].address)),
                             ![s].held = <<signMessageResult>>]
  /\ nonceCtr' = nonceCtr + 1
  /\ UNCHANGED <<users, now, issued, authLog, tokens, env, vaultVars, storeVars>>

\* Variant: the nonce of a user who has one already is kept.
NonceWriteKeepsExisting(s) ==
  /\ reqs[s].op = "nonce" /\ reqs[s].pc = "write"
  /\ LET address == reqs[s].address
         key == toLowerCase(address)
         signMessageResult == reqs[s].held[1]
     IN /\ nonceCtr' = nonceCtr
        /\ IF key \in DOMAIN users
           THEN /\ users' = users
                /\ issued' = issued \cup {signMessageResult.message}
                /\ Respond(s, 200)
           ELSE /\ users' = Put(users, key, [nonce |-> signMessageResult.nonce])
                /\ issued' = issued \cup {signMessageResult.message}
                /\ Respond(s, 200)
  /\ UNCHANGED <<now, authLog, tokens, env, vaultVars, storeVars>>

\* Lines 25-42: the update or the insert stores the nonce of the challenge
\* built before it, and the challenge is answered.
NonceWrite(s) ==
  /\ reqs[s].op = "nonce" /\ reqs[s].pc = "write"
  /\ LET address == reqs[s].address
         key == toLowerCase(address)
         signMessageResult == reqs[s].held[1]
     IN /\ nonceCtr' = nonceCtr
        /\ IF reqs[s].snap # <<>>
           THEN \* update ... where address = key
                /\ users' = IF key \in DOMAIN users
                            THEN [users EXCEPT ![key].nonce = signMessageResult.nonce]
                            ELSE users
                /\ issued' = issued \cup {signMessageResult.message}
                /\ Respond(s, 200)
           ELSE IF key \in DOMAIN users
           THEN \* insert hits the primary key: the request fails
                /\ UNCHANGED <<users, issued>>
                /\ Respond(s, 500)
           ELSE /\ users' = Put(users, key, [nonce |-> signMessageResult.nonce])
                /\ issued' = issued \cup {signMessageResult.message}
                /\ Respond(s, 200)
  /\ UNCHANGED <<now, authLog, tokens, env, vaultVars, storeVars>>

-----------------------------------------------------------------------------
(* POST /auth/wallet/verify                                                *)

Signatures == {Sign(w, m) : w \in Wallets, m \in issued}

VerifyStart(s, address, signature) ==
  /\ Free(s)
  /\ nonceCtr + Cardinality({t \in InFlight : reqs[t].pc \in {"read", "check"}}) < MaxNonce
  /\ reqs' = [reqs EXCEPT ![s] = NewReq("verify", address, "", signature)]
  /\ UNCHANGED <<authVars, vaultVars, storeVars>>

\* Lines 52-59: read the user.  The handler keeps the row it read.
VerifyRead(s) ==
  /\ reqs[s].op = "verify" /\ reqs[s].pc = "read"
  /\ LET user == findFirst(users, toLowerCase(reqs[s].address))
     IN IF user = <<>>
        THEN Respond(s, 404)
        ELSE reqs' = [reqs EXCEPT ![s].pc = "check", ![s].snap = user]
  /\ UNCHANGED <<authVars, vaultVars, storeVars>>

\* Variant: a signature that does not match uses the nonce up.
VerifyCheckBurnsNonce(s) ==
  /\ reqs[s].op = "verify" /\ reqs[s].pc = "check"
  /\ LET address == reqs[s].address
         key == toLowerCase(address)
         message == recreateMessage(reqs[s].snap[1].nonce, address)
         isValid == verifySignature(address, message, reqs[s].body)
     IN IF ~isValid
        THEN /\ Respond(s, 401)
             /\ nonceCtr' = nonceCtr + 1
             /\ users' = IF key \in DOMAIN users
                         THEN [users EXCEPT ![key].nonce =
                                 createSignMessage(generateNonce, address).nonce]
                         ELSE users
        ELSE /\ reqs' = [reqs EXCEPT ![s].pc = "rotate",
                                     ![s].held = <<createSignMessage(generateNonce, address)>>]
             /\ nonceCtr' = nonceCtr + 1
             /\ users' = users
  /\ UNCHANGED <<now, issued, authLog, tokens, env, vaultVars, storeVars>>

\* Variant: the signature is not checked.
VerifyCheckSkipsSignature(s) ==
  /\ reqs[s].op = "verify" /\ reqs[s].pc = "check"
  /\ reqs' = [reqs EXCEPT ![s].pc = "rotate",
                          ![s].held = <<createSignMessage(generateNonce, reqs[s].address)>>]
  /\ nonceCtr' = nonceCtr + 1
  /\ UNCHANGED <<users, now, issued, authLog, tokens, env, vaultVars, storeVars>>

\* Lines 61-79: rebuild the message from the nonce of the row that was
\* read, and await the check of the signature against it; when it passes,
\* the new nonce is generated and its challenge built, with the time in
\* it, before the update is awaited.
VerifyCheck(s) ==
  /\ reqs[s].op = "verify" /\ reqs[s].pc = "check"
  /\ LET address == reqs[s].address
         message == recreateMessage(reqs[s].snap[1].nonce, address)
         isValid == verifySignature(address, message, reqs[s].body)
         newNonce == generateNonce
         newSignMessageResult == createSignMessage(newNonce, address)
     IN IF ~isValid
        THEN Respond(s, 401) /\ nonceCtr' = nonceCtr
        ELSE /\ reqs' = [reqs EXCEPT ![s].pc = "rotate",
                                     ![s].held = <<newSignMessageResult>>]
             /\ nonceCtr' = nonceCtr + 1
  /\ UNCHANGED <<users, now, issued, authLog, tokens, env, vaultVars, storeVars>>

\* Variant: the nonce is not replaced.
VerifyRotateSkipped(s) ==
  /\ reqs[s].op = "verify" /\ reqs[s].pc = "rotate"
  /\ reqs' = [reqs EXCEPT ![s].pc = "token",
                          ![s].held = <<createToken(reqs[s].address)>>]
  /\ UNCHANGED <<authVars, vaultVars, storeVars>>

\* Lines 80-84: the update stores the nonce built before it; createToken
\* is called, fixes iat and exp by the clock and awaits the signing.
VerifyRotate(s) ==
  /\ reqs[s].op = "verify" /\ reqs[s].pc = "rotate"
  /\ LET address == reqs[s].address
         key == toLowerCase(address)
         newSignMessageResult == reqs[s].held[1]
     IN users' = IF key \in DOMAIN users
                 THEN [users EXCEPT ![key].nonce = newSignMessageResult.nonce]
                 ELSE users
  /\ reqs' = [reqs EXCEPT ![s].pc = "token",
                          ![s].held = <<createToken(reqs[s].address)>>]
  /\ UNCHANGED <<nonceCtr, now, issued, authLog, tokens, env, vaultVars, storeVars>>

\* Lines 84-86: the signed token comes back and is answered.
VerifyToken(s) ==
  /\ reqs[s].op = "verify" /\ reqs[s].pc = "token"
  /\ authLog' = Append(authLog,
                  [address |-> toLowerCase(reqs[s].address),
                   nonce |-> reqs[s].snap[1].nonce,
                   signature |-> reqs[s].body])
  /\ tokens' = tokens \cup {reqs[s].held[1]}
  /\ Respond(s, 200)
  /\ UNCHANGED <<users, nonceCtr, now, issued, env, vaultVars, storeVars>>

Tick ==
  /\ now < MaxTime
  /\ now' = now + 1
  /\ UNCHANGED <<users, nonceCtr, issued, authLog, tokens, env, vaultVars, storeVars, reqs>>

-----------------------------------------------------------------------------
EmptyTable == [k \in {} |-> NoBody]

InitAuth ==
  /\ users = EmptyTable
  /\ nonceCtr = 0
  /\ now = 0
  /\ issued = {}
  /\ authLog = <<>>
  /\ tokens = {}
  /\ env = ConfiguredEnv
  /\ InitVault
  /\ projects = EmptyTable
  /\ idCtr = 0
  /\ roles = EmptyTable
  /\ applications = EmptyTable
  /\ assignments = EmptyTable
  /\ kpis = EmptyTable
  /\ reqs = [s \in Slots |-> IdleReq]

AuthStart(s) ==
  \/ \E a \in AuthAddresses : NonceStart(s, a)
  \/ \E a \in AuthAddresses : \E sig \in Signatures : VerifyStart(s, a, sig)

AuthStep(s) ==
  \/ NonceRead(s)
  \/ NonceWrite(s)
  \/ VerifyRead(s)
  \/ VerifyCheck(s)
  \/ VerifyRotate(s)
  \/ VerifyToken(s)

\* Requests interleave freely; a new request takes the first free slot.
NextAuth ==
  \/ \E s \in Slots : (\A t \in Slots : t < s => ~Free(t)) /\ AuthStart(s)
  \/ \E s \in Slots : AuthStep(s)
  \/ Tick

\* One request at a time: a request starts only when none is in flight.
NextAuthSeq ==
  \/ \E s \in Slots : InFlight = {} /\ AuthStart(s)
  \/ \E s \in Slots : AuthStep(s)
  \/ Tick

SpecAuth == InitAuth /\ [][NextAuth]_vars
SpecAuthSeq == InitAuth /\ [][NextAuthSeq]_vars
-----------------------------------------------------------------------------
(* Login claims.                                                           *)

VerifyOk(s) == reqs[s].op = "verify" /\ reqs[s].pc = "done" /\ reqs[s].status = 200

\* C1: one request at a time, a stored nonce authenticates at most once: no
\* two tokens were issued against the same stored nonce or for the same
\* signature, and once a verify has succeeded the nonce stored for the
\* address differs from the one it checked.
C1_NonceSingleUse ==
  /\ \A i, j \in DOMAIN authLog :
       i # j => /\ authLog[i].nonce # authLog[j].nonce
                /\ authLog[i].signature # authLog[j].signature
  /\ \A s \in Slots :
       VerifyOk(s) => users[toLowerCase(reqs[s].address)].nonce # reqs[s].snap[1].nonce

\* A verify succeeded, and a later verify for the same address with the same
\* signature was answered 401.
C1_Witness ==
  \E s \in Slots : \E i \in DOMAIN authLog :
    /\ reqs[s].op = "verify" /\ reqs[s].pc = "done" /\ reqs[s].status = 401
    /\ reqs[s].body = authLog[i].signature
    /\ toLowerCase(reqs[s].address) = authLog[i].address

\* C2: two verify requests for one address that checked the same stored
\* nonce never both succeed.
C2_ConcurrentVerifyOnce ==
  \A s, t \in Slots :
    (s # t /\ VerifyOk(s) /\ VerifyOk(t)
       /\ toLowerCase(reqs[s].address) = toLowerCase(reqs[t].address))
    => reqs[s].snap[1].nonce # reqs[t].snap[1].nonce
-----------------------------------------------------------------------------
(* The store: projects, roles, applications, assignments, KPIs.            *)
(* Text columns that are NULL hold "", timestamps that are NULL hold -1,   *)
(* a NULL assignment_id holds 0.                                           *)

Callers == {"0xa", "0xb", "0xc"}
KpiIds == {"k1", "k9"}

\* nanoid(): an id never produced before.
nanoid == idCtr + 1

NewKpi(roleId, kpiNumber, amount) ==
  [projectRoleId |-> roleId, assignmentId |-> 0, kpiNumber |-> kpiNumber,
   description |-> "d0", deadline |-> 0, amount |-> amount, status |-> "pending",
   submittedAt |-> -1, reviewedAt |-> -1, submissionData |-> "",
   reviewComment |-> "", penaltyAmount |-> 0, depositTxHash |-> "",
   payoutTxHash |-> "", vaultBalanceAtStart |-> "", vaultBalanceAtEnd |-> "",
   yieldEarned |-> 0, updatedAt |-> 0]

\* db.query.kpis.findFirst({ with: { assignment, projectRole: { project } } })
KpiView(id) ==
  IF id \notin DOMAIN kpis THEN <<>>
  ELSE <<[kpi |-> kpis[id],
          assignment |-> findFirst(assignments, kpis[id].assignmentId),
          ownerAddress |->
            projects[roles[kpis[id].projectRoleId].projectId].ownerAddress]>>

\* db.update(kpis).set(...).where(eq(kpis.id, kpiId)): no row, no change.
UpdateKpi(id, row) == IF id \in DOMAIN kpis THEN [kpis EXCEPT ![id] = row] ELSE kpis

KeepStore == UNCHANGED <<authVars, vaultVars, storeVars>>
KeepButKpis == UNCHANGED <<authVars, vaultVars, projects, idCtr, roles, applications, assignments>>

StoreStart(s, op, address, target, body) ==
  /\ Free(s)
  /\ reqs' = [reqs EXCEPT ![s] = NewReq(op, address, target, body)]
  /\ KeepStore

At(s, op, pc) == reqs[s].op = op /\ reqs[s].pc = pc

\* The reply: the handler's locals are gone, the status code remains.
Answer(s, code) ==
  reqs' = [reqs EXCEPT ![s] = [IdleReq EXCEPT !.op = reqs[s].op, !.pc = "done",
                                              !.status = code]]

\* The checks passed: the handler builds its statement, new Date() of its
\* set clause included, and awaits it.
Proceed(s, view) ==
  reqs' = [reqs EXCEPT ![s].pc = "write", ![s].snap = view, ![s].held = <<now>>]

-----------------------------------------------------------------------------
(* POST /kpis/:id/submit                                                   *)

SubmitBodies ==
  { [submissionData |-> "report", deliverables |-> ""],
    [submissionData |-> "", deliverables |-> "links"] }

\* JSON.stringify(body.deliverables), or body.submissionData as it is.
submissionDataToStore(body) ==
  IF body.deliverables # "" THEN "json:links" ELSE body.submissionData

\* Variant: a rejected KPI may be submitted again.
SubmitReadAllowsResubmit(s) ==
  /\ At(s, "submit", "read")
  /\ LET kpi == KpiView(reqs[s].target)
     IN IF kpi = <<>> \/ kpi[1].assignment = <<>> THEN Answer(s, 404)
        ELSE IF kpi[1].assignment[1].freelancerAddress # reqs[s].address
        THEN Answer(s, 403)
        ELSE IF kpi[1].kpi.status \notin {"pending", "rejected"} THEN Answer(s, 400)
        ELSE Proceed(s, kpi)
  /\ KeepStore

SubmitRead(s) ==
  /\ At(s, "submit", "read")
  /\ LET kpi == KpiView(reqs[s].target)
     IN IF kpi = <<>> \/ kpi[1].assignment = <<>> THEN Answer(s, 404)
        ELSE IF kpi[1].assignment[1].freelancerAddress # reqs[s].address
        THEN Answer(s, 403)
        ELSE IF kpi[1].kpi.status # "pending" THEN Answer(s, 400)
        ELSE Proceed(s, kpi)
  /\ KeepStore

SubmitWrite(s) ==
  /\ At(s, "submit", "write")
  /\ LET id == reqs[s].target
     IN kpis' = UpdateKpi(id, [kpis[id] EXCEPT
                  !.status = "submitted",
                  !.submissionData = submissionDataToStore(reqs[s].body),
                  !.submittedAt = reqs[s].held[1]])
  /\ Answer(s, 200)
  /\ KeepButKpis

-----------------------------------------------------------------------------
(* POST /kpis/:id/approve                                                  *)

ApproveBodies == { [comment |-> ""], [comment |-> "well done"] }

\* Variant: the status check is missing.
ApproveReadNoStatusCheck(s) ==
  /\ At(s, "approve", "read")
  /\ LET kpi == KpiView(reqs[s].target)
     IN IF kpi = <<>> \/ kpi[1].assignment = <<>> THEN Answer(s, 404)
        ELSE IF kpi[1].ownerAddress # reqs[s].address THEN Answer(s, 403)
        ELSE Proceed(s, kpi)
  /\ KeepStore

ApproveRead(s) ==
  /\ At(s, "approve", "read")
  /\ LET kpi == KpiView(reqs[s].target)
     IN IF kpi = <<>> \/ kpi[1].assignment = <<>> THEN Answer(s, 404)
        ELSE IF kpi[1].ownerAddress # reqs[s].address THEN Answer(s, 403)
        ELSE IF kpi[1].kpi.status # "submitted" THEN Answer(s, 400)
        ELSE Proceed(s, kpi)
  /\ KeepStore

ApproveWrite(s) ==
  /\ At(s, "approve", "write")
  /\ LET id == reqs[s].target
     IN kpis' = UpdateKpi(id, [kpis[id] EXCEPT
                  !.status = "approved",
                  !.reviewComment = reqs[s].body.comment,
                  !.reviewedAt = reqs[s].held[1]])
  /\ Answer(s, 200)
  /\ KeepButKpis

-----------------------------------------------------------------------------
(* POST /kpis/:id/reject                                                   *)

RejectBodies == { [comment |-> "please redo"] }

\* Variant: the status is checked before the caller.
RejectReadStatusFirst(s) ==
  /\ At(s, "reject", "read")
  /\ LET kpi == KpiView(reqs[s].target)
     IN IF kpi = <<>> \/ kpi[1].assignment = <<>> THEN Answer(s, 404)
        ELSE IF kpi[1].kpi.status # "submitted" THEN Answer(s, 400)
        ELSE IF kpi[1].ownerAddress # reqs[s].address THEN Answer(s, 403)
        ELSE Proceed(s, kpi)
  /\ KeepStore

RejectRead(s) ==
  /\ At(s, "reject", "read")
  /\ LET kpi == KpiView(reqs[s].target)
     IN IF kpi = <<>> \/ kpi[1].assignment = <<>> THEN Answer(s, 404)
        ELSE IF kpi[1].ownerAddress # reqs[s].address THEN Answer(s, 403)
        ELSE IF kpi[1].kpi.status # "submitted" THEN Answer(s, 400)
        ELSE Proceed(s, kpi)
  /\ KeepStore

RejectWrite(s) ==
  /\ At(s, "reject", "write")
  /\ LET id == reqs[s].target
     IN kpis' = UpdateKpi(id, [kpis[id] EXCEPT
                  !.status = "rejected",
                  !.reviewComment = reqs[s].body.comment,
                  !.reviewedAt = reqs[s].held[1]])
  /\ Answer(s, 200)
  /\ KeepButKpis

-----------------------------------------------------------------------------
(* POST /kpis/:id/confirm                                                  *)

\* Variant: the status check is missing.
ConfirmReadNoStatusCheck(s) ==
  /\ At(s, "confirm", "read")
  /\ LET kpi == KpiView(reqs[s].target)
     IN IF kpi = <<>> \/ kpi[1].assignment = <<>> THEN Answer(s, 404)
        ELSE IF kpi[1].assignment[1].freelancerAddress # reqs[s].address
        THEN Answer(s, 403)
        ELSE Proceed(s, kpi)
  /\ KeepStore

ConfirmRead(s) ==
  /\ At(s, "confirm", "read")
  /\ LET kpi == KpiView(reqs[s].target)
     IN IF kpi = <<>> \/ kpi[1].assignment = <<>> THEN Answer(s, 404)
        ELSE IF kpi[1].assignment[1].freelancerAddress # reqs[s].address
        THEN Answer(s, 403)
        ELSE IF kpi[1].kpi.status # "approved" THEN Answer(s, 400)
        ELSE Proceed(s, kpi)
  /\ KeepStore

ConfirmWrite(s) ==
  /\ At(s, "confirm", "write")
  /\ LET id == reqs[s].target
     IN kpis' = UpdateKpi(id, [kpis[id] EXCEPT !.status = "paid", !.updatedAt = reqs[s].held[1]])
  /\ Answer(s, 200)
  /\ KeepButKpis

-----------------------------------------------------------------------------
(* POST /kpis/:id/record-deposit and /record-payout                        *)

DepositBodies == { [txHash |-> "0xdep", vaultBalance |-> "5000"] }
PayoutBodies ==
  { [txHash |-> "0xpay", vaultBalance |-> "4000", yieldEarned |-> 100,
     penaltyAmount |-> 50] }

RecordDepositRead(s) ==
  /\ At(s, "record-deposit", "read")
  /\ LET kpi == KpiView(reqs[s].target)
     IN IF kpi = <<>> THEN Answer(s, 404)
        ELSE IF kpi[1].ownerAddress # reqs[s].address THEN Answer(s, 403)
        ELSE Proceed(s, kpi)
  /\ KeepStore

\* Variant: the deposit is recorded and the KPI is put back to pending.
RecordDepositWriteResetsStatus(s) ==
  /\ At(s, "record-deposit", "write")
  /\ LET id == reqs[s].target
     IN kpis' = UpdateKpi(id, [kpis[id] EXCEPT
                  !.status = "pending",
                  !.depositTxHash = reqs[s].body.txHash,
                  !.vaultBalanceAtStart = reqs[s].body.vaultBalance,
                  !.updatedAt = reqs[s].held[1]])
  /\ Answer(s, 200)
  /\ KeepButKpis

RecordDepositWrite(s) ==
  /\ At(s, "record-deposit", "write")
  /\ LET id == reqs[s].target
     IN kpis' = UpdateKpi(id, [kpis[id] EXCEPT
                  !.depositTxHash = reqs[s].body.txHash,
                  !.vaultBalanceAtStart = reqs[s].body.vaultBalance,
                  !.updatedAt = reqs[s].held[1]])
  /\ Answer(s, 200)
  /\ KeepButKpis

\* Variant: a payout is recorded only for an approved KPI.
RecordPayoutReadRequiresApproved(s) ==
  /\ At(s, "record-payout", "read")
  /\ LET kpi == KpiView(reqs[s].target)
     IN IF kpi = <<>> THEN Answer(s, 404)
        ELSE IF kpi[1].ownerAddress # reqs[s].address THEN Answer(s, 403)
        ELSE IF kpi[1].kpi.status # "approved" THEN Answer(s, 400)
        ELSE Proceed(s, kpi)
  /\ KeepStore

\* Variant: the owner check is missing.
RecordPayoutReadNoOwnerCheck(s) ==
  /\ At(s, "record-payout", "read")
  /\ LET kpi == KpiView(reqs[s].target)
     IN IF kpi = <<>> THEN Answer(s, 404)
        ELSE Proceed(s, kpi)
  /\ KeepStore

RecordPayoutRead(s) ==
  /\ At(s, "record-payout", "read")
  /\ LET kpi == KpiView(reqs[s].target)
     IN IF kpi = <<>> THEN Answer(s, 404)
        ELSE IF kpi[1].ownerAddress # reqs[s].address THEN Answer(s, 403)
        ELSE Proceed(s, kpi)
  /\ KeepStore

RecordPayoutWrite(s) ==
  /\ At(s, "record-payout", "write")
  /\ LET id == reqs[s].target
     IN kpis' = UpdateKpi(id, [kpis[id] EXCEPT
                  !.status = "paid",
                  !.payoutTxHash = reqs[s].body.txHash,
                  !.vaultBalanceAtEnd = reqs[s].body.vaultBalance,
                  !.yieldEarned = reqs[s].body.yieldEarned,
                  !.penaltyAmount = reqs[s].body.penaltyAmount,
                  !.updatedAt = reqs[s].held[1]])
  /\ Answer(s, 200)
  /\ KeepButKpis

-----------------------------------------------------------------------------
(* PUT /projects/kpis/:kpiId                                               *)

KpiMetaBodies ==
  { [description |-> <<"d1">>, deadline |-> <<>>],
    [description |-> <<>>, deadline |-> <<1>>] }

KpiMetaRead(s) ==
  /\ At(s, "kpi-meta", "read")
  /\ LET kpi == KpiView(reqs[s].target)
     IN IF kpi = <<>> THEN Answer(s, 404)
        ELSE IF kpi[1].ownerAddress # reqs[s].address THEN Answer(s, 403)
        ELSE IF kpi[1].kpi.status # "pending" THEN Answer(s, 400)
        ELSE Proceed(s, kpi)
  /\ KeepStore

KpiMetaWrite(s) ==
  /\ At(s, "kpi-meta", "write")
  /\ LET id == reqs[s].target
         body == reqs[s].body
         kpi == reqs[s].snap[1].kpi
     IN kpis' = UpdateKpi(id, [kpis[id] EXCEPT
                  !.description = IF body.description # <<>> THEN body.description[1]
                                  ELSE @,
                  !.deadline = IF body.deadline # <<>> THEN body.deadline[1]
                               ELSE kpi.deadline])
  /\ Answer(s, 200)
  /\ KeepButKpis
-----------------------------------------------------------------------------
(* POST /applications/:id/accept                                           *)

ApplicationIds == {"ap1", "ap2", "ap9"}

\* db.query.applications.findFirst({ with: { projectRole: { project } } })
ApplicationView(id) ==
  IF id \notin DOMAIN applications THEN <<>>
  ELSE <<[application |-> applications[id],
          projectRole |-> roles[applications[id].projectRoleId],
          ownerAddress |->
            projects[roles[applications[id].projectRoleId].projectId].ownerAddress,
          assignmentId |-> 0]>>

AcceptRead(s) ==
  /\ At(s, "accept", "read")
  /\ LET application == ApplicationView(reqs[s].target)
     IN IF application = <<>> THEN Answer(s, 404)
        ELSE IF application[1].ownerAddress # reqs[s].address THEN Answer(s, 403)
        ELSE IF application[1].application.status # "pending" THEN Answer(s, 400)
        ELSE IF application[1].projectRole.status # "open" THEN Answer(s, 400)
        ELSE reqs' = [reqs EXCEPT ![s].pc = "insert", ![s].snap = application]
  /\ KeepStore

\* Lines 136-143: create the assignment.
AcceptInsert(s) ==
  /\ At(s, "accept", "insert")
  /\ LET application == reqs[s].snap[1].application
         assignmentId == nanoid
     IN /\ idCtr' = idCtr + 1
        /\ assignments' = Put(assignments, assignmentId,
                              [projectRoleId |-> application.projectRoleId,
                               freelancerAddress |-> application.freelancerAddress,
                               status |-> "active"])
        /\ reqs' = [reqs EXCEPT ![s].pc = "link",
                                ![s].snap[1].assignmentId = assignmentId]
  /\ UNCHANGED <<authVars, vaultVars, projects, roles, applications, kpis>>

\* Variant: the KPIs of the role are not linked to the assignment.
AcceptLinkSkipped(s) ==
  /\ At(s, "accept", "link")
  /\ kpis' = kpis
  /\ reqs' = [reqs EXCEPT ![s].pc = "mark"]
  /\ KeepButKpis

\* Lines 145-148: link the role's KPIs to the assignment.
AcceptLink(s) ==
  /\ At(s, "accept", "link")
  /\ LET roleId == reqs[s].snap[1].application.projectRoleId
     IN kpis' = [k \in DOMAIN kpis |->
                   IF kpis[k].projectRoleId = roleId
                   THEN [kpis[k] EXCEPT !.assignmentId = reqs[s].snap[1].assignmentId]
                   ELSE kpis[k]]
  /\ reqs' = [reqs EXCEPT ![s].pc = "mark"]
  /\ KeepButKpis

\* Lines 150-153: the application becomes accepted.
AcceptMark(s) ==
  /\ At(s, "accept", "mark")
  /\ LET id == reqs[s].target
     IN applications' = IF id \in DOMAIN applications
                        THEN [applications EXCEPT ![id].status = "accepted"]
                        ELSE applications
  /\ reqs' = [reqs EXCEPT ![s].pc = "fanout"]
  /\ UNCHANGED <<authVars, vaultVars, projects, idCtr, roles, assignments, kpis>>

\* Variant: every sibling that is not accepted becomes rejected, whatever
\* its status was.
AcceptRejectOthersAnyStatus(s) ==
  /\ At(s, "accept", "fanout")
  /\ LET roleId == reqs[s].snap[1].application.projectRoleId
     IN applications' = [a \in DOMAIN applications |->
                           IF /\ applications[a].projectRoleId = roleId
                              /\ applications[a].status # "accepted"
                           THEN [applications[a] EXCEPT !.status = "rejected"]
                           ELSE applications[a]]
  /\ reqs' = [reqs EXCEPT ![s].pc = "role"]
  /\ UNCHANGED <<authVars, vaultVars, projects, idCtr, roles, assignments, kpis>>

\* Lines 155-161: the role's other pending applications become rejected.
AcceptRejectOthers(s) ==
  /\ At(s, "accept", "fanout")
  /\ LET roleId == reqs[s].snap[1].application.projectRoleId
     IN applications' = [a \in DOMAIN applications |->
                           IF /\ applications[a].projectRoleId = roleId
                              /\ applications[a].status = "pending"
                           THEN [applications[a] EXCEPT !.status = "rejected"]
                           ELSE applications[a]]
  /\ reqs' = [reqs EXCEPT ![s].pc = "role"]
  /\ UNCHANGED <<authVars, vaultVars, projects, idCtr, roles, assignments, kpis>>

\* Lines 163-166: the role becomes assigned.
AcceptRole(s) ==
  /\ At(s, "accept", "role")
  /\ LET roleId == reqs[s].snap[1].application.projectRoleId
     IN roles' = IF roleId \in DOMAIN roles
                 THEN [roles EXCEPT ![roleId].status = "assigned"]
                 ELSE roles
  /\ reqs' = [reqs EXCEPT ![s].pc = "read-back"]
  /\ UNCHANGED <<authVars, vaultVars, projects, idCtr, applications, assignments, kpis>>

\* Lines 168-183: the assignment is read back, with its role, project and
\* KPIs, and returned.
AcceptReadBack(s) ==
  /\ At(s, "accept", "read-back")
  /\ Answer(s, 200)
  /\ KeepStore

\* Any awaited store call may throw (connection lost, statement refused):
\* the handler ends with a 500 and what it wrote so far stays written, as
\* nothing wraps the writes in a transaction.
AcceptFail(s) ==
  /\ reqs[s].op = "accept"
  /\ reqs[s].pc \in {"insert", "link", "mark", "fanout", "role", "read-back"}
  /\ Answer(s, 500)
  /\ KeepStore

-----------------------------------------------------------------------------
(* PUT /projects/:id/roles/:roleId                                         *)

ProjectIds == {"p1", "p9"}

RoleBodies ==
  { [projectId |-> p, roleId |-> "r1", status |-> st, kpiCount |-> <<>>,
     paymentPerKpi |-> pay] :
      p \in ProjectIds,
      st \in {<<"open">>, <<"completed">>},
      pay \in {<<>>} }

RoleUpdateReadProject(s) ==
  /\ At(s, "role-update", "read")
  /\ LET project == findFirst(projects, reqs[s].body.projectId)
     IN IF project = <<>> \/ project[1].ownerAddress # reqs[s].address
        THEN Answer(s, 403)
        ELSE reqs' = [reqs EXCEPT ![s].pc = "read-role", ![s].snap = project]
  /\ KeepStore

RoleUpdateReadRole(s) ==
  /\ At(s, "role-update", "read-role")
  /\ LET role == findFirst(roles, reqs[s].body.roleId)
     IN IF role = <<>> \/ role[1].projectId # reqs[s].body.projectId
        THEN Answer(s, 404)
        ELSE Proceed(s, role)
  /\ KeepStore

\* Lines 265-270: .set(body) writes the fields the body carries; the query
\* builder refuses a body that carries none ('No values to set'), which the
\* handler does not catch.
RoleUpdateWrite(s) ==
  /\ At(s, "role-update", "write")
  /\ LET id == reqs[s].body.roleId
         body == reqs[s].body
     IN IF body.status = <<>> /\ body.kpiCount = <<>> /\ body.paymentPerKpi = <<>>
        THEN /\ roles' = roles
             /\ Answer(s, 500)
        ELSE /\ roles' = IF id \in DOMAIN roles
                         THEN [roles EXCEPT
                                 ![id].status = IF body.status # <<>>
                                                THEN body.status[1] ELSE @,
                                 ![id].kpiCount = IF body.kpiCount # <<>>
                                                  THEN body.kpiCount[1] ELSE @,
                                 ![id].paymentPerKpi = IF body.paymentPerKpi # <<>>
                                                       THEN body.paymentPerKpi[1] ELSE @]
                         ELSE roles
             /\ Answer(s, 200)
  /\ UNCHANGED <<authVars, vaultVars, projects, idCtr, applications, assignments, kpis>>

-----------------------------------------------------------------------------
(* POST /projects/:id/cancel                                               *)

RolesOf(projectId) == {r \in DOMAIN roles : roles[r].projectId = projectId}

CancelRead(s) ==
  /\ At(s, "cancel", "read")
  /\ LET project == findFirst(projects, reqs[s].target)
     IN IF project = <<>> THEN Answer(s, 404)
        ELSE IF project[1].ownerAddress # reqs[s].address THEN Answer(s, 403)
        ELSE IF project[1].status \in {"cancelled", "completed"} THEN Answer(s, 400)
        ELSE reqs' = [reqs EXCEPT
                        ![s].pc = "write",
                        ![s].snap = <<[project |-> project[1],
                                       assigned |-> {r \in RolesOf(reqs[s].target) :
                                                       roles[r].status = "assigned"}]>>]
  /\ KeepStore

\* Lines 595-598: the project becomes cancelled.
CancelProject(s) ==
  /\ At(s, "cancel", "write")
  /\ LET id == reqs[s].target
     IN projects' = IF id \in DOMAIN projects
                    THEN [projects EXCEPT ![id].status = "cancelled"]
                    ELSE projects
  /\ IF reqs[s].snap[1].assigned = {}
     THEN Answer(s, 200)
     ELSE reqs' = [reqs EXCEPT ![s].pc = "roles"]
  /\ UNCHANGED <<authVars, vaultVars, idCtr, roles, applications, assignments, kpis>>

\* Lines 600-607: one role that was assigned when the project was read
\* becomes cancelled; the answer follows the last one.
CancelRole(s) ==
  /\ At(s, "cancel", "roles")
  /\ \E r \in reqs[s].snap[1].assigned :
       /\ roles' = IF r \in DOMAIN roles
                   THEN [roles EXCEPT ![r].status = "cancelled"]
                   ELSE roles
       /\ IF reqs[s].snap[1].assigned = {r}
          THEN Answer(s, 200)
          ELSE reqs' = [reqs EXCEPT ![s].snap[1].assigned = @ \ {r}]
  /\ UNCHANGED <<authVars, vaultVars, projects, idCtr, applications, assignments, kpis>>

-----------------------------------------------------------------------------
(* A store a project owner "0xa" has prepared at time 0: project p1 is    *)
(* open, its role r1 has its KPIs and two pending applications, by "0xb"   *)
(* and by "0xc".  It is now time 1.                                        *)

InitWorld(kpiIds) ==
  /\ users = [a \in Callers |-> [nonce |-> [n |-> 0, ts |-> 0]]]
  /\ nonceCtr = 0
  /\ now = 1
  /\ issued = {}
  /\ authLog = <<>>
  /\ tokens = {}
  /\ env = ConfiguredEnv
  /\ InitVault
  /\ projects = [p \in {"p1"} |-> [ownerAddress |-> "0xa", status |-> "open"]]
  /\ idCtr = 0
  /\ roles = [r \in {"r1"} |->
                [projectId |-> "p1", kpiCount |-> Cardinality(kpiIds),
                 paymentPerKpi |-> 1000, status |-> "open"]]
  /\ applications =
       [a \in {"ap1", "ap2"} |->
          [projectRoleId |-> "r1",
           freelancerAddress |-> IF a = "ap1" THEN "0xb" ELSE "0xc",
           status |-> "pending"]]
  /\ assignments = EmptyTable
  /\ kpis = [k \in kpiIds |->
               NewKpi("r1", IF k = "k1" THEN 1 ELSE 2, 1000)]
  /\ reqs = [s \in Slots |-> IdleReq]

\* One KPI for the KPI state machine, two for acceptance.
InitKpi == InitWorld({"k1"})
InitAccept == InitWorld({"k1", "k2"})

-----------------------------------------------------------------------------
(* Specifications over the prepared store.                                 *)

KpiStart(s) ==
  \E address \in Callers : \E id \in KpiIds :
    \/ \E body \in SubmitBodies : StoreStart(s, "submit", address, id, body)
    \/ \E body \in ApproveBodies : StoreStart(s, "approve", address, id, body)
    \/ \E body \in RejectBodies : StoreStart(s, "reject", address, id, body)
    \/ StoreStart(s, "confirm", address, id, NoBody)
    \/ \E body \in DepositBodies : StoreStart(s, "record-deposit", address, id, body)
    \/ \E body \in PayoutBodies : StoreStart(s, "record-payout", address, id, body)
    \/ \E body \in KpiMetaBodies : StoreStart(s, "kpi-meta", address, id, body)

AcceptStart(s) ==
  /\ idCtr + Cardinality(InFlight) < MaxIds
  /\ \E address \in Callers : \E id \in ApplicationIds :
       StoreStart(s, "accept", address, id, NoBody)

ProjectStart(s) ==
  \E address \in Callers :
    \/ \E body \in RoleBodies : StoreStart(s, "role-update", address, "", body)
    \/ \E id \in ProjectIds : StoreStart(s, "cancel", address, id, NoBody)

KpiStep(s) ==
  \/ SubmitRead(s) \/ SubmitWrite(s)
  \/ ApproveRead(s) \/ ApproveWrite(s)
  \/ RejectRead(s) \/ RejectWrite(s)
  \/ ConfirmRead(s) \/ ConfirmWrite(s)
  \/ RecordDepositRead(s) \/ RecordDepositWrite(s)
  \/ RecordPayoutRead(s) \/ RecordPayoutWrite(s)
  \/ KpiMetaRead(s) \/ KpiMetaWrite(s)

AcceptStep(s) ==
  \/ AcceptRead(s) \/ AcceptInsert(s) \/ AcceptLink(s)
  \/ AcceptMark(s) \/ AcceptRejectOthers(s) \/ AcceptRole(s)
  \/ AcceptReadBack(s)

ProjectStep(s) ==
  \/ RoleUpdateReadProject(s) \/ RoleUpdateReadRole(s) \/ RoleUpdateWrite(s)
  \/ CancelRead(s) \/ CancelProject(s) \/ CancelRole(s)

\* The whole store API, one request at a time.
NextStoreSeq ==
  \/ InFlight = {} /\ (KpiStart(1) \/ AcceptStart(1) \/ ProjectStart(1))
  \/ KpiStep(1) \/ AcceptStep(1) \/ ProjectStep(1)

SpecStoreSeq == InitKpi /\ [][NextStoreSeq]_vars

\* Accept requests interleaving with each other; a request may fail midway.
NextAccept ==
  \E s \in Slots : AcceptStart(s) \/ AcceptStep(s) \/ AcceptFail(s)

SpecAccept == InitAccept /\ [][NextAccept]_vars

\* The owner accepts both pending applications of role r1, ap1 in one
\* request and ap2 in another; the two interleave freely and none fails.
AcceptBothStart(s) ==
  /\ idCtr + Cardinality(InFlight) < MaxIds
  /\ StoreStart(s, "accept", "0xa", IF s = 1 THEN "ap1" ELSE "ap2", NoBody)

NextAcceptRace ==
  \E s \in Slots : AcceptBothStart(s) \/ AcceptStep(s)

SpecAcceptRace == InitAccept /\ [][NextAcceptRace]_vars

\* The one-KPI store after the owner accepted application ap1: what
\* SpecStoreSeq reaches by the accept of ap1.
InitKpiRace ==
  /\ users = [a \in Callers |-> [nonce |-> [n |-> 0, ts |-> 0]]]
  /\ nonceCtr = 0
  /\ now = 1
  /\ issued = {}
  /\ authLog = <<>>
  /\ tokens = {}
  /\ env = ConfiguredEnv
  /\ InitVault
  /\ projects = [p \in {"p1"} |-> [ownerAddress |-> "0xa", status |-> "open"]]
  /\ idCtr = 1
  /\ roles = [r \in {"r1"} |->
                [projectId |-> "p1", kpiCount |-> 1,
                 paymentPerKpi |-> 1000, status |-> "assigned"]]
  /\ applications =
       [a \in {"ap1", "ap2"} |->
          [projectRoleId |-> "r1",
           freelancerAddress |-> IF a = "ap1" THEN "0xb" ELSE "0xc",
           status |-> IF a = "ap1" THEN "accepted" ELSE "rejected"]]
  /\ assignments = [a \in {1} |-> [projectRoleId |-> "r1",
                                   freelancerAddress |-> "0xb",
                                   status |-> "active"]]
  /\ kpis = [k \in {"k1"} |-> [NewKpi("r1", 1, 1000) EXCEPT !.assignmentId = 1]]
  /\ reqs = [s \in Slots |-> IdleReq]

\* The owner and the freelancer sending transitions of KPI k1 concurrently.
RaceStart(s) ==
  \E address \in {"0xa", "0xb"} :
    \/ \E body \in SubmitBodies : StoreStart(s, "submit", address, "k1", body)
    \/ \E body \in ApproveBodies : StoreStart(s, "approve", address, "k1", body)
    \/ \E body \in RejectBodies : StoreStart(s, "reject", address, "k1", body)
    \/ StoreStart(s, "confirm", address, "k1", NoBody)

RaceStep(s) ==
  \/ SubmitRead(s) \/ SubmitWrite(s)
  \/ ApproveRead(s) \/ ApproveWrite(s)
  \/ RejectRead(s) \/ RejectWrite(s)
  \/ ConfirmRead(s) \/ ConfirmWrite(s)

NextKpiRace == \E s \in Slots : RaceStart(s) \/ RaceStep(s)

SpecKpiRace == InitKpiRace /\ [][NextKpiRace]_vars

\* SpecStoreSeq reaches the store SpecKpiRace starts from.
ReachesInitKpiRace ==
  /\ roles["r1"].status = "assigned"
  /\ applications["ap1"].status = "accepted"
  /\ applications["ap2"].status = "rejected"
  /\ DOMAIN assignments = {1} /\ assignments[1].freelancerAddress = "0xb"
  /\ kpis["k1"] = [NewKpi("r1", 1, 1000) EXCEPT !.assignmentId = 1]
  /\ projects["p1"].status = "open" /\ idCtr = 1

-----------------------------------------------------------------------------
(* Acceptance claims.                                                      *)

AssignmentsOf(roleId) ==
  {a \in DOMAIN assignments : assignments[a].projectRoleId = roleId}

ApplicationsIn(roleId, status) ==
  {a \in DOMAIN applications :
     applications[a].projectRoleId = roleId /\ applications[a].status = status}

AcceptOk(s) == reqs[s].op = "accept" /\ reqs[s].pc = "done" /\ reqs[s].status = 200

\* C3: however two accept requests for the two pending applications of role
\* r1 interleave, the role gets at most one assignment, at most one of the
\* requests is answered 200, and once both are answered and the role is
\* assigned exactly one application is accepted and none is left pending.
C3_ConcurrentAcceptOnce ==
  /\ Cardinality(AssignmentsOf("r1")) <= 1
  /\ ~(AcceptOk(1) /\ AcceptOk(2))
  /\ (InFlight = {} /\ roles["r1"].status = "assigned")
       => /\ Cardinality(ApplicationsIn("r1", "accepted")) = 1
          /\ ApplicationsIn("r1", "pending") = {}

\* C4: in every state of the store, an assignment exists for a role only
\* together with the accepted application, the links of all the role's KPIs
\* to it, and the role's status assigned.
C4_AcceptAllOrNothing ==
  \A a \in DOMAIN assignments :
    LET roleId == assignments[a].projectRoleId
    IN /\ roles[roleId].status # "open"
       /\ \A k \in DOMAIN kpis :
            kpis[k].projectRoleId = roleId => kpis[k].assignmentId = a
       /\ \E ap \in ApplicationsIn(roleId, "accepted") :
            applications[ap].freelancerAddress = assignments[a].freelancerAddress

-----------------------------------------------------------------------------
(* KPI state machine claims.                                               *)

TransitionOps == {"submit", "approve", "reject", "confirm"}
OwnerOps == {"approve", "reject", "record-deposit", "record-payout"}
GuardedOps == TransitionOps \cup {"record-deposit", "record-payout"}

\* The status a transition requires and the status it sets.
Precondition(op) ==
  CASE op = "submit" -> "pending"
    [] op = "approve" -> "submitted"
    [] op = "reject" -> "submitted"
    [] op = "confirm" -> "approved"

Target(op) ==
  CASE op = "submit" -> "submitted"
    [] op = "approve" -> "approved"
    [] op = "reject" -> "rejected"
    [] op = "confirm" -> "paid"

Exists(k) == k \in DOMAIN kpis
Assigned(k) == Exists(k) /\ kpis[k].assignmentId \in DOMAIN assignments
OwnerOf(k) == projects[roles[kpis[k].projectRoleId].projectId].ownerAddress
FreelancerOf(k) == assignments[kpis[k].assignmentId].freelancerAddress

\* The caller the transition table names for op on KPI k.
IsActor(op, k, address) ==
  IF op \in OwnerOps THEN OwnerOf(k) = address
  ELSE Assigned(k) /\ FreelancerOf(k) = address

\* Request s takes its first step (the read and the checks) in this step.
Checks(s) == reqs[s].pc = "read" /\ reqs'[s].pc # "read"
\* Request s takes its writing step in this step.
Writes(s) == reqs[s].pc = "write" /\ reqs'[s].pc = "done"
Answered(s, code) == reqs'[s].pc = "done" /\ reqs'[s].status = code

TableEdges ==
  { <<"pending", "submitted">>, <<"submitted", "approved">>,
    <<"submitted", "rejected">>, <<"approved", "paid">> }

\* C5: with transition requests on one KPI interleaving, a status write is
\* applied only while the KPI has the status the request checked, so every
\* change of the stored status is an edge of the transition table.
C5_RacingTransitionsKeepToTable ==
  [][\A k \in DOMAIN kpis :
       kpis'[k].status # kpis[k].status
       => <<kpis[k].status, kpis'[k].status>> \in TableEdges]_vars

\* C6 as stated: a transition asked by its actor on a KPI whose status is
\* not the required one is answered 400 and changes no KPI.
C6_IllegalTransitionIs400 ==
  [][\A s \in Slots :
       (/\ Checks(s) /\ reqs[s].op \in TransitionOps
        /\ Exists(reqs[s].target)
        /\ IsActor(reqs[s].op, reqs[s].target, reqs[s].address)
        /\ kpis[reqs[s].target].status # Precondition(reqs[s].op))
       => Answered(s, 400) /\ kpis' = kpis]_vars

\* C6 amended: the same for a KPI that is linked to an assignment; the
\* owner's approve or reject of a KPI without assignment whose status is
\* not submitted is answered 404, and the KPI is unchanged as well.  (The
\* actor of submit and confirm is the freelancer of the assignment, so a
\* KPI without assignment has none.)
C6_IllegalTransitionOnAssignedKpi ==
  [][\A s \in Slots :
       (/\ Checks(s) /\ reqs[s].op \in TransitionOps
        /\ Exists(reqs[s].target)
        /\ IsActor(reqs[s].op, reqs[s].target, reqs[s].address)
        /\ kpis[reqs[s].target].status # Precondition(reqs[s].op))
       => /\ kpis' = kpis
          /\ IF Assigned(reqs[s].target) THEN Answered(s, 400)
             ELSE Answered(s, 404)]_vars

\* The freelancer's confirm of a KPI that is not approved was answered 400.
C6_Witness ==
  /\ reqs[1].op = "confirm" /\ reqs[1].pc = "done" /\ reqs[1].status = 400
  /\ kpis["k1"].status = "submitted"

\* C7: one request at a time, a KPI's status changes only by the writing
\* step of submit (pending to submitted), approve (submitted to approved),
\* reject (submitted to rejected), confirm (approved to paid) or
\* record-payout (anything to paid), on the KPI the request names.
C7_StatusEdges ==
  [][\A k \in DOMAIN kpis :
       (k \in DOMAIN kpis' /\ kpis'[k].status # kpis[k].status)
       => \E s \in Slots :
            /\ Writes(s) /\ reqs[s].target = k
            /\ \/ /\ reqs[s].op \in TransitionOps
                  /\ kpis[k].status = Precondition(reqs[s].op)
                  /\ kpis'[k].status = Target(reqs[s].op)
               \/ /\ reqs[s].op = "record-payout"
                  /\ kpis'[k].status = "paid"]_vars

\* KPI k1 went pending, submitted, approved, paid by confirm (no payout was
\* recorded), with its role since reopened or the project cancelled.
C7_Witness ==
  /\ kpis["k1"].status = "paid" /\ kpis["k1"].payoutTxHash = ""
  /\ kpis["k1"].depositTxHash # ""
  /\ projects["p1"].status = "cancelled"

\* C8 as stated: a rejected KPI stays rejected.
C8_RejectedIsTerminal ==
  [][\A k \in DOMAIN kpis :
       kpis[k].status = "rejected"
       => k \in DOMAIN kpis' /\ kpis'[k].status = "rejected"]_vars

\* C8 amended: a rejected KPI leaves rejected only by the writing step of a
\* record-payout, which the project owner alone gets to, and then it is paid.
C8_RejectedLeavesOnlyByPayout ==
  [][\A k \in DOMAIN kpis :
       (kpis[k].status = "rejected"
        /\ ~(k \in DOMAIN kpis' /\ kpis'[k].status = "rejected"))
       => /\ k \in DOMAIN kpis' /\ kpis'[k].status = "paid"
          /\ \E s \in Slots :
               /\ Writes(s) /\ reqs[s].op = "record-payout" /\ reqs[s].target = k
               /\ reqs[s].address = OwnerOf(k)]_vars

\* A rejected KPI (it carries the reject comment) was then paid by a
\* recorded payout.
C8_Witness ==
  /\ kpis["k1"].status = "paid"
  /\ kpis["k1"].reviewComment = "please redo"
  /\ kpis["k1"].payoutTxHash = "0xpay"

\* Both parts of C9 and C10 speak of the first step of a guarded request.
ChangesKpis == kpis' # kpis

\* C9 as stated: a guarded operation changes a KPI only for its actor, and
\* any other caller of an existing KPI is answered 403 with no change.
C9_ActorOr403 ==
  [][\A s \in Slots :
       /\ (Writes(s) /\ reqs[s].op \in GuardedOps /\ ChangesKpis)
            => IsActor(reqs[s].op, reqs[s].target, reqs[s].address)
       /\ (/\ Checks(s) /\ reqs[s].op \in GuardedOps /\ Exists(reqs[s].target)
           /\ ~IsActor(reqs[s].op, reqs[s].target, reqs[s].address))
            => Answered(s, 403) /\ ~ChangesKpis]_vars

\* C9 amended: any other caller is answered 403 when the KPI is linked to
\* an assignment or the operation is record-deposit or record-payout, and
\* 404 when a transition is asked on a KPI without assignment; no change
\* either way.
C9_ActorOr403Or404 ==
  [][\A s \in Slots :
       /\ (Writes(s) /\ reqs[s].op \in GuardedOps /\ ChangesKpis)
            => IsActor(reqs[s].op, reqs[s].target, reqs[s].address)
       /\ (/\ Checks(s) /\ reqs[s].op \in GuardedOps /\ Exists(reqs[s].target)
           /\ ~IsActor(reqs[s].op, reqs[s].target, reqs[s].address))
            => /\ ~ChangesKpis
               /\ IF reqs[s].op \in TransitionOps /\ ~Assigned(reqs[s].target)
                  THEN Answered(s, 404)
                  ELSE Answered(s, 403)]_vars

\* A record-payout was refused with 403 and the KPI, assigned, is not paid.
C9_Witness ==
  /\ reqs[1].op = "record-payout" /\ reqs[1].pc = "done" /\ reqs[1].status = 403
  /\ Assigned("k1") /\ kpis["k1"].status = "submitted"

\* C10 as stated: a missing KPI gives 404, an existing KPI gives 403 to
\* whoever is not the actor, and 400 goes only to the actor of an existing KPI.
C10_CheckOrder ==
  [][\A s \in Slots :
       (Checks(s) /\ reqs[s].op \in TransitionOps)
       => /\ ~Exists(reqs[s].target) => Answered(s, 404)
          /\ (Exists(reqs[s].target)
              /\ ~IsActor(reqs[s].op, reqs[s].target, reqs[s].address))
               => Answered(s, 403)
          /\ Answered(s, 400)
               => /\ Exists(reqs[s].target)
                  /\ IsActor(reqs[s].op, reqs[s].target, reqs[s].address)]_vars

\* C10 amended: a KPI that is missing or has no assignment gives 404 to every
\* caller; an assigned KPI gives 403 to whoever is not the actor, whatever
\* its status; 400 goes only to the actor of an assigned KPI whose status is
\* not the required one.
C10_CheckOrderAssigned ==
  [][\A s \in Slots :
       (Checks(s) /\ reqs[s].op \in TransitionOps)
       => /\ ~Assigned(reqs[s].target) => Answered(s, 404)
          /\ (Assigned(reqs[s].target)
              /\ ~IsActor(reqs[s].op, reqs[s].target, reqs[s].address))
               => Answered(s, 403)
          /\ Answered(s, 400)
               => /\ Assigned(reqs[s].target)
                  /\ IsActor(reqs[s].op, reqs[s].target, reqs[s].address)
                  /\ kpis[reqs[s].target].status # Precondition(reqs[s].op)]_vars

\* A submit was refused with 403 although the KPI is no longer pending: the
\* caller is checked before the status.
C10_Witness ==
  /\ reqs[1].op = "submit" /\ reqs[1].pc = "done" /\ reqs[1].status = 403
  /\ Assigned("k1") /\ kpis["k1"].status = "approved"

-----------------------------------------------------------------------------
(* Recording vault transactions.                                           *)

\* C11: a record-payout by the owner of the KPI's project goes on to its
\* write whatever the KPI's status and whether or not it is assigned, and
\* the write stores payoutTxHash, vaultBalanceAtEnd, yieldEarned and
\* penaltyAmount from the body, sets the status to paid and is answered 200.
C11_PayoutForcesPaid ==
  [][\A s \in Slots :
       /\ (/\ Checks(s) /\ reqs[s].op = "record-payout" /\ Exists(reqs[s].target)
           /\ OwnerOf(reqs[s].target) = reqs[s].address)
            => reqs'[s].pc = "write" /\ kpis' = kpis
       /\ (Writes(s) /\ reqs[s].op = "record-payout")
            => /\ Answered(s, 200)
               /\ kpis' = [kpis EXCEPT ![reqs[s].target] =
                    [@ EXCEPT !.status = "paid",
                              !.payoutTxHash = reqs[s].body.txHash,
                              !.vaultBalanceAtEnd = reqs[s].body.vaultBalance,
                              !.yieldEarned = reqs[s].body.yieldEarned,
                              !.penaltyAmount = reqs[s].body.penaltyAmount,
                              !.updatedAt = reqs[s].held[1]]]]_vars

\* A payout was recorded for a KPI that was never assigned nor submitted.
C11_Witness ==
  /\ reqs[1].op = "record-payout" /\ reqs[1].pc = "done" /\ reqs[1].status = 200
  /\ kpis["k1"].status = "paid" /\ kpis["k1"].assignmentId = 0
  /\ kpis["k1"].submittedAt = -1
  /\ kpis["k1"].payoutTxHash = "0xpay" /\ kpis["k1"].vaultBalanceAtEnd = "4000"
  /\ kpis["k1"].yieldEarned = 100 /\ kpis["k1"].penaltyAmount = 50

\* C12: the write of a record-deposit, which the project owner alone gets
\* to, changes depositTxHash, vaultBalanceAtStart and updatedAt of the named
\* KPI and nothing else of it (status, amount, assignment link, submission
\* payload, review comment), and no other KPI.
C12_DepositKeepsStatus ==
  [][\A s \in Slots :
       /\ (/\ Checks(s) /\ reqs[s].op = "record-deposit" /\ Exists(reqs[s].target)
           /\ OwnerOf(reqs[s].target) = reqs[s].address)
            => reqs'[s].pc = "write" /\ kpis' = kpis
       /\ (Writes(s) /\ reqs[s].op = "record-deposit")
            => /\ Answered(s, 200)
               /\ kpis' = [kpis EXCEPT ![reqs[s].target] =
                    [@ EXCEPT !.depositTxHash = reqs[s].body.txHash,
                              !.vaultBalanceAtStart = reqs[s].body.vaultBalance,
                              !.updatedAt = reqs[s].held[1]]]]_vars

\* A deposit was recorded for a rejected KPI, which is still rejected and
\* still carries its submission and review comment.
C12_Witness ==
  /\ reqs[1].op = "record-deposit" /\ reqs[1].pc = "done" /\ reqs[1].status = 200
  /\ kpis["k1"].status = "rejected" /\ kpis["k1"].depositTxHash = "0xdep"
  /\ kpis["k1"].vaultBalanceAtStart = "5000"
  /\ kpis["k1"].reviewComment = "please redo" /\ kpis["k1"].submissionData # ""

-----------------------------------------------------------------------------
(* POST /applications/:id/reject                                           *)

RejectApplicationRead(s) ==
  /\ At(s, "reject-application", "read")
  /\ LET application == ApplicationView(reqs[s].target)
     IN IF application = <<>> THEN Answer(s, 404)
        ELSE IF application[1].ownerAddress # reqs[s].address THEN Answer(s, 403)
        ELSE IF application[1].application.status # "pending" THEN Answer(s, 400)
        ELSE Proceed(s, application)
  /\ KeepStore

RejectApplicationWrite(s) ==
  /\ At(s, "reject-application", "write")
  /\ LET id == reqs[s].target
     IN applications' = IF id \in DOMAIN applications
                        THEN [applications EXCEPT ![id].status = "rejected"]
                        ELSE applications
  /\ Answer(s, 200)
  /\ UNCHANGED <<authVars, vaultVars, projects, idCtr, roles, assignments, kpis>>

-----------------------------------------------------------------------------
(* Acceptance over two roles, one request at a time.                       *)

\* Project p1 of owner 0xa with the open roles r1 (KPI k1) and r2 (KPI k2).
\* Role r1 has the applications ap1, ap2 and ap3, role r2 has ap4.  The
\* status column admits withdrawn (schema.ts:62); no route of this service
\* writes it, so ap3 is either pending or a row withdrawn from outside.
InitRoles ==
  /\ users = [a \in Callers |-> [nonce |-> [n |-> 0, ts |-> 0]]]
  /\ nonceCtr = 0
  /\ now = 1
  /\ issued = {}
  /\ authLog = <<>>
  /\ tokens = {}
  /\ env = ConfiguredEnv
  /\ InitVault
  /\ projects = [p \in {"p1"} |-> [ownerAddress |-> "0xa", status |-> "open"]]
  /\ idCtr = 0
  /\ roles = [r \in {"r1", "r2"} |->
                [projectId |-> "p1", kpiCount |-> 1,
                 paymentPerKpi |-> 1000, status |-> "open"]]
  /\ \E st \in {"pending", "withdrawn"} :
       applications =
         [a \in {"ap1", "ap2", "ap3", "ap4"} |->
            [projectRoleId |-> IF a = "ap4" THEN "r2" ELSE "r1",
             freelancerAddress |->
               CASE a = "ap1" -> "0xb" [] a = "ap2" -> "0xc"
                 [] a = "ap3" -> "0xa" [] a = "ap4" -> "0xb",
             status |-> IF a = "ap3" THEN st ELSE "pending"]]
  /\ assignments = EmptyTable
  /\ kpis = [k \in {"k1", "k2"} |->
               NewKpi(IF k = "k1" THEN "r1" ELSE "r2", 1, 1000)]
  /\ reqs = [s \in Slots |-> IdleReq]

RoleApplicationIds == {"ap1", "ap2", "ap3", "ap4", "ap9"}

ReviewStart(s) ==
  \E address \in {"0xa", "0xb"} : \E id \in RoleApplicationIds :
    \/ idCtr < MaxIds /\ StoreStart(s, "accept", address, id, NoBody)
    \/ StoreStart(s, "reject-application", address, id, NoBody)

ReviewStep(s) ==
  \/ AcceptStep(s)
  \/ RejectApplicationRead(s) \/ RejectApplicationWrite(s)

NextReviewSeq ==
  \/ InFlight = {} /\ ReviewStart(1)
  \/ ReviewStep(1)

SpecReviewSeq == InitRoles /\ [][NextReviewSeq]_vars

-----------------------------------------------------------------------------
(* Effects and frame of an accept.                                         *)

\* The role of the application an accept request read.
AcceptedRole(s) == reqs[s].snap[1].application.projectRoleId

\* A step of an accept request after its read.
AcceptWrites(s) ==
  /\ reqs[s].op = "accept"
  /\ reqs[s].pc \in {"insert", "link", "mark", "fanout", "role"}
  /\ reqs'[s] # reqs[s]

\* C13: one request at a time, the owner's accept of a pending application
\* of an open role goes on to its writes; its fan-out turns exactly the
\* role's pending applications into rejected ones; and when it is answered
\* 200 exactly one assignment was added, it is active and binds the
\* applicant to the role, every KPI of the role is linked to it, the
\* application is accepted, no application of the role is pending and the
\* role is assigned.
C13_AcceptEffects ==
  [][\A s \in Slots :
       /\ (/\ Checks(s) /\ reqs[s].op = "accept"
           /\ reqs[s].target \in DOMAIN applications
           /\ reqs[s].address =
                projects[roles[applications[reqs[s].target].projectRoleId]
                           .projectId].ownerAddress
           /\ applications[reqs[s].target].status = "pending"
           /\ roles[applications[reqs[s].target].projectRoleId].status = "open")
            => reqs'[s].pc = "insert"
       /\ (reqs[s].op = "accept" /\ reqs[s].pc = "insert" /\ reqs'[s].pc = "link")
            => /\ DOMAIN assignments' \ DOMAIN assignments
                    = {reqs'[s].snap[1].assignmentId}
               /\ \A x \in DOMAIN assignments : assignments'[x] = assignments[x]
       /\ (reqs[s].op = "accept" /\ reqs[s].pc = "fanout" /\ reqs'[s].pc = "role")
            => \A a \in DOMAIN applications :
                 (/\ applications[a].projectRoleId = AcceptedRole(s)
                  /\ applications[a].status = "pending")
                   => applications'[a].status = "rejected"
       /\ (reqs[s].op = "accept" /\ reqs[s].pc = "role" /\ reqs'[s].pc = "read-back")
            => roles'[AcceptedRole(s)].status = "assigned"
       /\ (reqs[s].op = "accept" /\ Answered(s, 200) /\ reqs[s].pc # "done")
            => reqs[s].pc = "read-back"
       /\ (reqs[s].op = "accept" /\ reqs[s].pc = "read-back" /\ Answered(s, 200))
            => LET R == AcceptedRole(s)
                   A == reqs[s].snap[1].application
                   id == reqs[s].snap[1].assignmentId
               IN /\ assignments'[id] =
                       [projectRoleId |-> R,
                        freelancerAddress |-> A.freelancerAddress,
                        status |-> "active"]
                  /\ \A k \in DOMAIN kpis' :
                       kpis'[k].projectRoleId = R => kpis'[k].assignmentId = id
                  /\ applications'[reqs[s].target].status = "accepted"
                  /\ \A a \in DOMAIN applications' :
                       applications'[a].projectRoleId = R
                       => applications'[a].status # "pending"
                  /\ roles'[R].status = "assigned"]_vars

\* The accept of ap1 was answered 200: assignment 1 binds 0xb to r1, k1 is
\* linked, ap1 is accepted, the sibling ap2 is rejected and r1 is assigned.
C13_Witness ==
  /\ reqs[1].op = "accept" /\ reqs[1].pc = "done" /\ reqs[1].status = 200
  /\ DOMAIN assignments = {1} /\ assignments[1].freelancerAddress = "0xb"
  /\ kpis["k1"].assignmentId = 1
  /\ applications["ap1"].status = "accepted"
  /\ applications["ap2"].status = "rejected"
  /\ roles["r1"].status = "assigned"

\* C14: no step of an accept for role R changes an application of R that is
\* withdrawn or rejected, nor any application, assignment, KPI or role of
\* another role.
C14_AcceptFrame ==
  [][\A s \in Slots :
       AcceptWrites(s)
       => LET R == AcceptedRole(s)
          IN /\ \A a \in DOMAIN applications :
                  (\/ applications[a].projectRoleId # R
                   \/ applications[a].status \in {"withdrawn", "rejected"})
                  => a \in DOMAIN applications' /\ applications'[a] = applications[a]
             /\ \A x \in DOMAIN assignments :
                  x \in DOMAIN assignments' /\ assignments'[x] = assignments[x]
             /\ \A x \in DOMAIN assignments' \ DOMAIN assignments :
                  assignments'[x].projectRoleId = R
             /\ \A k \in DOMAIN kpis :
                  kpis[k].projectRoleId # R => kpis'[k] = kpis[k]
             /\ \A r \in DOMAIN roles : r # R => roles'[r] = roles[r]]_vars

\* The accept of ap1 for r1 is done: ap3 is still withdrawn, and role r2
\* with its application ap4 and its KPI k2 is as it was.
C14_Witness ==
  /\ reqs[1].op = "accept" /\ reqs[1].pc = "done" /\ reqs[1].status = 200
  /\ applications["ap1"].status = "accepted"
  /\ applications["ap3"].status = "withdrawn"
  /\ applications["ap4"].status = "pending"
  /\ roles["r2"].status = "open" /\ kpis["k2"].assignmentId = 0

-----------------------------------------------------------------------------
(* POST /applications?roleId=                                              *)

ApplyBodies == { [coverLetter |-> "I would like to take this role"] }

\* The roleId query parameter: an open role, another one, none such, absent.
ApplyRoleIds == {"r1", "r2", "r9", ""}

\* Lines 19-38: the query parameter and the role.
ApplyReadRole(s) ==
  /\ At(s, "apply", "read")
  /\ LET role == findFirst(roles, reqs[s].target)
     IN IF role = <<>> /\ reqs[s].target = "" THEN Respond(s, 400)
        ELSE IF role = <<>> THEN Respond(s, 404)
        ELSE IF role[1].status # "open" THEN Respond(s, 400)
        ELSE reqs' = [reqs EXCEPT ![s].pc = "existing"]
  /\ KeepStore

\* applications.findFirst({ where: and(eq(projectRoleId), eq(freelancerAddress)) })
existingApplication(roleId, address) ==
  {a \in DOMAIN applications :
     /\ applications[a].projectRoleId = roleId
     /\ applications[a].freelancerAddress = address}

\* Variant: the look-up of an earlier application is missing.
ApplyReadExistingSkipped(s) ==
  /\ At(s, "apply", "existing")
  /\ reqs' = [reqs EXCEPT ![s].pc = "write"]
  /\ KeepStore

\* Lines 40-50: an earlier application of the caller for the role.
ApplyReadExisting(s) ==
  /\ At(s, "apply", "existing")
  /\ IF existingApplication(reqs[s].target, reqs[s].address) # {}
     THEN Respond(s, 400)
     ELSE reqs' = [reqs EXCEPT ![s].pc = "write"]
  /\ KeepStore

\* Lines 52-61: the new row.
ApplyInsert(s) ==
  /\ At(s, "apply", "write")
  /\ LET id == nanoid
     IN /\ idCtr' = idCtr + 1
        /\ applications' = Put(applications, id,
                               [projectRoleId |-> reqs[s].target,
                                freelancerAddress |-> reqs[s].address,
                                status |-> "pending",
                                coverLetter |-> reqs[s].body.coverLetter])
  /\ Respond(s, 201)
  /\ UNCHANGED <<authVars, vaultVars, projects, roles, assignments, kpis>>

\* Project p1 of owner 0xa with the open roles r1 and r2; nobody applied yet.
InitApply ==
  /\ users = [a \in Callers |-> [nonce |-> [n |-> 0, ts |-> 0]]]
  /\ nonceCtr = 0
  /\ now = 1
  /\ issued = {}
  /\ authLog = <<>>
  /\ tokens = {}
  /\ env = ConfiguredEnv
  /\ InitVault
  /\ projects = [p \in {"p1"} |-> [ownerAddress |-> "0xa", status |-> "open"]]
  /\ idCtr = 0
  /\ roles = [r \in {"r1", "r2"} |->
                [projectId |-> "p1", kpiCount |-> 1,
                 paymentPerKpi |-> 1000, status |-> "open"]]
  /\ applications = EmptyTable
  /\ assignments = EmptyTable
  /\ kpis = [k \in {"k1", "k2"} |->
               NewKpi(IF k = "k1" THEN "r1" ELSE "r2", 1, 1000)]
  /\ reqs = [s \in Slots |-> IdleReq]

ApplyStart(s) ==
  /\ idCtr + Cardinality(InFlight) < MaxIds
  /\ \E address \in Callers : \E roleId \in ApplyRoleIds : \E body \in ApplyBodies :
       StoreStart(s, "apply", address, roleId, body)

ApplyStep(s) == ApplyReadRole(s) \/ ApplyReadExisting(s) \/ ApplyInsert(s)

\* Applications arriving concurrently.
NextApply == \E s \in Slots : ApplyStart(s) \/ ApplyStep(s)

SpecApply == InitApply /\ [][NextApply]_vars

\* Applications arriving one at a time.
NextApplySeq ==
  \/ InFlight = {} /\ ApplyStart(1)
  \/ ApplyStep(1)

SpecApplySeq == InitApply /\ [][NextApplySeq]_vars

\* The pending applications of a freelancer for a role.
PendingOf(roleId, address) ==
  {a \in existingApplication(roleId, address) : applications[a].status = "pending"}

\* C15: in every state, whatever the interleaving of the apply requests,
\* a freelancer has at most one pending application for a role.
C15_OnePendingPerPair ==
  \A a, b \in DOMAIN applications :
    (/\ applications[a].projectRoleId = applications[b].projectRoleId
     /\ applications[a].freelancerAddress = applications[b].freelancerAddress
     /\ applications[a].status = "pending" /\ applications[b].status = "pending")
    => a = b

\* C16: one request at a time, no step of an apply by a freelancer who has
\* a pending application for the role changes the applications, the request
\* never gets to its insert, and its answer is 400.
C16_DuplicateApplyIs400 ==
  [][\A s \in Slots :
       (/\ reqs[s].op = "apply" /\ reqs[s].pc \in {"read", "existing", "write"}
        /\ reqs'[s] # reqs[s]
        /\ PendingOf(reqs[s].target, reqs[s].address) # {})
       => /\ applications' = applications
          /\ reqs'[s].pc \in {"existing", "done"}
          /\ reqs'[s].pc = "done" => reqs'[s].status = 400]_vars

\* 0xb applied to the open role r1 a second time and was answered 400; the
\* first application is the only row.
C16_Witness ==
  /\ reqs[1].op = "apply" /\ reqs[1].pc = "done" /\ reqs[1].status = 400
  /\ reqs[1].address = "0xb" /\ reqs[1].target = "r1"
  /\ roles["r1"].status = "open"
  /\ DOMAIN applications = {1}
  /\ applications[1].projectRoleId = "r1"
  /\ applications[1].freelancerAddress = "0xb"
  /\ applications[1].status = "pending"

-----------------------------------------------------------------------------
(* middleware/auth                                                         *)

\* An Authorization header is absent (<<>>) or its first seven characters
\* followed by the rest.

\* Tokens nobody at the server issued: signed with a guessed key or with the
\* published default, a token of another caller with the address rewritten,
\* and text that is no token.
ForgedTokens ==
  LET payload == [address |-> "0xa", iat |-> 0, exp |-> 7 * 24 * 60 * 60]
  IN { [payload |-> payload, signature |-> HS256(key, payload)] :
         key \in {"guess", DefaultSecret} }
     \cup { [t EXCEPT !.payload.address = "0xa"] : t \in tokens }
     \cup { [raw |-> "not.a.token"] }

Headers ==
  {<<>>} \cup
  { <<prefix, token>> : prefix \in {"Bearer ", "bearer "},
                        token \in tokens \cup ForgedTokens }

\* A request to a protected route arrives.
ProtectedStart(s, authorization, op, target, body) ==
  /\ Free(s)
  /\ reqs' = [reqs EXCEPT ![s] =
                [NewReq(op, "", target, body) EXCEPT
                   !.pc = "auth", !.authorization = authorization]]
  /\ KeepStore

\* Variant: any scheme is taken for Bearer.
authMiddlewareAnyScheme(s) ==
  /\ reqs[s].pc = "auth"
  /\ LET authHeader == reqs[s].authorization
     IN IF authHeader = <<>> THEN Respond(s, 401)
        ELSE LET payload == verifyToken(authHeader[2])
             IN IF payload = <<>> THEN Respond(s, 401)
                ELSE reqs' = [reqs EXCEPT ![s].pc = "read",
                                          ![s].address = payload[1].address]
  /\ KeepStore

authMiddleware(s) ==
  /\ reqs[s].pc = "auth"
  /\ LET authHeader == reqs[s].authorization
     IN IF authHeader = <<>> \/ authHeader[1] # "Bearer " THEN Respond(s, 401)
        ELSE LET token == authHeader[2]
                 payload == verifyToken(token)
             IN IF payload = <<>> THEN Respond(s, 401)
                ELSE reqs' = [reqs EXCEPT ![s].pc = "read",
                                          ![s].address = payload[1].address]
  /\ KeepStore

\* The clock jumps to one of the instants around the end of a session.
Instants ==
  LET week == 7 * 24 * 60 * 60
  IN {1500, week * 1000 - 1, week * 1000, (week + 1) * 1000}

Advance ==
  /\ \E t \in Instants : t > now /\ now' = t
  /\ UNCHANGED <<users, nonceCtr, issued, authLog, tokens, env, vaultVars, storeVars, reqs>>

\* The one-KPI store; the wallets 0xa (the project owner, who spells the
\* address 0xA) and 0xb asked for their challenges at time 0 and have not
\* signed in yet.  JWT_SECRET is set in the environment, or it is not.
InitSession ==
  /\ users = [a \in Wallets |->
                [nonce |-> [n |-> IF a = "0xa" THEN 1 ELSE 2, ts |-> 0]]]
  /\ nonceCtr = 2
  /\ now = 1
  /\ issued = { [address |-> checksumAddress(a), n |-> users[a].nonce.n, ts |-> 0] :
                  a \in Wallets }
  /\ authLog = <<>>
  /\ tokens = {}
  /\ env \in {ConfiguredEnv, BareEnv}
  /\ InitVault
  /\ projects = [p \in {"p1"} |-> [ownerAddress |-> "0xa", status |-> "open"]]
  /\ idCtr = 0
  /\ roles = [r \in {"r1"} |->
                [projectId |-> "p1", kpiCount |-> 1,
                 paymentPerKpi |-> 1000, status |-> "open"]]
  /\ applications = EmptyTable
  /\ assignments = EmptyTable
  /\ kpis = [k \in {"k1"} |-> NewKpi("r1", 1, 1000)]
  /\ reqs = [s \in Slots |-> IdleReq]

SessionStart(s) ==
  \/ \E a \in AuthAddresses : \E sig \in Signatures : VerifyStart(s, a, sig)
  \/ \E h \in Headers : \E body \in DepositBodies :
       ProtectedStart(s, h, "record-deposit", "k1", body)

SessionStep(s) ==
  \/ VerifyRead(s) \/ VerifyCheck(s) \/ VerifyRotate(s) \/ VerifyToken(s)
  \/ authMiddleware(s)
  \/ RecordDepositRead(s) \/ RecordDepositWrite(s)

\* Sign-in and a protected route, one request at a time, over a week.
NextSession ==
  \/ InFlight = {} /\ SessionStart(1)
  \/ SessionStep(1)
  \/ Advance

SpecSession == InitSession /\ [][NextSession]_vars

-----------------------------------------------------------------------------
(* Session claims.                                                         *)

\* The header is one the gate turns away.
Unauthenticated(authHeader) ==
  \/ authHeader = <<>>
  \/ authHeader[1] # "Bearer "
  \/ verifyToken(authHeader[2]) = <<>>

\* C17: a request whose Authorization header is absent, does not start
\* with "Bearer " or carries a token verifyToken rejects is answered 401 by
\* the gate and changes nothing; any other request enters its handler with
\* the address of the token, the handler keeps that address to its end, and
\* the store changes only in the write of a request that passed the gate.
C17_AuthorizationGate ==
  [][\A s \in Slots :
       /\ (reqs[s].pc = "auth" /\ reqs'[s] # reqs[s])
            => IF Unauthenticated(reqs[s].authorization)
               THEN /\ Answered(s, 401)
                    /\ UNCHANGED <<authVars, vaultVars, storeVars>>
               ELSE /\ reqs'[s].pc = "read"
                    /\ reqs'[s].address = reqs[s].authorization[2].payload.address
       /\ (reqs[s].op = "record-deposit" /\ reqs[s].pc \in {"read", "write"})
            => /\ reqs[s].authorization # <<>>
               /\ reqs[s].authorization[1] = "Bearer "
               /\ reqs[s].address = reqs[s].authorization[2].payload.address
       /\ (storeVars' # storeVars /\ reqs'[s] # reqs[s])
            => reqs[s].pc = "write"]_vars

\* A token the server issued and still honours was sent as "bearer ..." and
\* the request was answered 401; no deposit is recorded.
C17_Witness ==
  /\ reqs[1].op = "record-deposit" /\ reqs[1].pc = "done" /\ reqs[1].status = 401
  /\ reqs[1].authorization # <<>>
  /\ reqs[1].authorization[1] = "bearer "
  /\ reqs[1].authorization[2] \in tokens
  /\ verifyToken(reqs[1].authorization[2]) # <<>>
  /\ kpis["k1"].depositTxHash = ""

\* verifyToken honours the tokens the server issued until their exp and
\* no token that does not carry the server's signature.
SessionsExpire ==
  /\ \A t \in tokens :
       verifyToken(t) = IF epoch < t.payload.exp THEN <<t.payload>> ELSE <<>>
  /\ \A t \in ForgedTokens :
       (\/ DOMAIN t # {"payload", "signature"}
        \/ t.signature # HS256(JWT_SECRET, t.payload))
       => verifyToken(t) = <<>>

\* C18: the token a sign-in for address A issues at second t, the second
\* at which createToken is called, carries the lower-cased A, iat = t and
\* exp = t + 604800 under the server's signature, and it is the token the
\* sign-in returns; at every time verifyToken returns the payload of an
\* issued token before its exp and null from exp on, and null for a token
\* without the server's signature.
C18_SessionLifetime ==
  [][/\ \A s \in Slots :
          /\ (reqs[s].op = "verify" /\ reqs[s].pc = "rotate" /\ reqs'[s].pc = "token")
               => LET payload == [address |-> toLowerCase(reqs[s].address),
                                  iat |-> now \div 1000,
                                  exp |-> (now \div 1000) + 604800]
                  IN reqs'[s].held = <<[payload |-> payload,
                                        signature |-> HS256(JWT_SECRET, payload)]>>
          /\ (reqs[s].op = "verify" /\ reqs[s].pc = "token" /\ reqs'[s].pc = "done")
               => tokens' = tokens \cup {reqs[s].held[1]}
     /\ SessionsExpire /\ SessionsExpire']_vars

\* A token issued for the wallet spelled 0xA carries 0xa; sent at the very
\* second of its exp it was answered 401.
C18_Witness ==
  /\ reqs[1].op = "record-deposit" /\ reqs[1].pc = "done" /\ reqs[1].status = 401
  /\ reqs[1].authorization # <<>>
  /\ reqs[1].authorization[1] = "Bearer "
  /\ reqs[1].authorization[2] \in tokens
  /\ reqs[1].authorization[2].payload.address = "0xa"
  /\ reqs[1].authorization[2].payload.exp = epoch
  /\ Len(authLog) = 1 /\ authLog[1].signature.msg.address = "0xA"

\* C19: with JWT_SECRET unset no token is issued and no request gets past
\* the gate.
C19_FailsClosed ==
  env.JWT_SECRET = <<>>
  => /\ tokens = {}
     /\ \A s \in Slots :
          reqs[s].op = "record-deposit"
          => \/ reqs[s].pc = "auth"
             \/ reqs[s].pc = "done" /\ reqs[s].status = 401

-----------------------------------------------------------------------------
(* Failed sign-in.                                                         *)

\* C20: a verify that is answered 404 (no user row) or 401 (the signature
\* does not match) leaves the users table, every stored nonce included, as
\* it was, issues no token and logs no sign-in; and a verify that carries
\* the wallet's signature over the challenge built from the stored nonce
\* passes the check.
C20_FailedVerifyChangesNothing ==
  [][\A s \in Slots :
       /\ (/\ reqs[s].op = "verify" /\ reqs[s].pc \in {"read", "check"}
           /\ reqs'[s].pc = "done" /\ reqs'[s].status \in {401, 404})
            => users' = users /\ tokens' = tokens /\ authLog' = authLog
       /\ (/\ reqs[s].op = "verify" /\ reqs[s].pc = "check" /\ reqs'[s] # reqs[s]
           /\ toLowerCase(reqs[s].address) \in DOMAIN users
           /\ reqs[s].body =
                Sign(toLowerCase(reqs[s].address),
                     recreateMessage(users[toLowerCase(reqs[s].address)].nonce,
                                     reqs[s].address)))
            => reqs'[s].pc = "rotate"
       /\ (reqs[s].op = "verify" /\ reqs'[s].pc = "done" /\ reqs[s].pc # "done"
           /\ reqs'[s].status = 200)
            => reqs[s].pc = "token"]_vars

\* A verify for a wallet was answered 401, and the next verify for the same
\* wallet, against the same stored nonce, was answered 200.
C20_Witness ==
  /\ reqs[1].op = "verify" /\ reqs[1].pc = "done" /\ reqs[1].status = 401
  /\ reqs[2].op = "verify" /\ reqs[2].pc = "done" /\ reqs[2].status = 200
  /\ toLowerCase(reqs[1].address) = toLowerCase(reqs[2].address)
  /\ reqs[1].snap = reqs[2].snap

-----------------------------------------------------------------------------
(* Challenge claims.                                                       *)

\* The challenges issued so far to the wallet stored under key.
IssuedTo(key) == {m \in issued : toLowerCase(m.address) = key}

\* Some wallet's signature over message m passes the check of a verify for
\* address a against the users table u.
Verifies(u, a, m) ==
  /\ toLowerCase(a) \in DOMAIN u
  /\ \E w \in Wallets :
       verifySignature(a, recreateMessage(u[toLowerCase(a)].nonce, a), Sign(w, m))

\* C21: one request at a time, a nonce request for address A generates a
\* nonce and stamps it with the time of its generation, and its write is
\* answered 200 and leaves A's row holding that nonce, created if A was
\* unknown and replaced otherwise; no other row changes; and no signature
\* over a challenge issued to A before verifies any more.
C21_NonceOverwrites ==
  [][\A s \in Slots :
       /\ (reqs[s].op = "nonce" /\ reqs[s].pc = "read" /\ reqs'[s].pc = "write")
            => reqs'[s].held[1].nonce = [n |-> nonceCtr + 1, ts |-> now]
       /\ (reqs[s].op = "nonce" /\ reqs[s].pc = "write" /\ reqs'[s].pc = "done")
       => LET key == toLowerCase(reqs[s].address)
          IN /\ Answered(s, 200)
             /\ DOMAIN users' = DOMAIN users \cup {key}
             /\ users'[key].nonce = reqs[s].held[1].nonce
             /\ \A k \in DOMAIN users : users[k].nonce.n # reqs[s].held[1].nonce.n
             /\ \A k \in DOMAIN users \ {key} : users'[k] = users[k]
             /\ \A m \in IssuedTo(key) : \A a \in AuthAddresses :
                  ~Verifies(users', a, m)]_vars

\* Wallet 0xb holds its first nonce; wallet 0xa asked twice and holds the
\* second of its two, generated third.
C21_Witness ==
  /\ DOMAIN users = {"0xa", "0xb"}
  /\ users["0xb"].nonce.n = 1 /\ users["0xa"].nonce.n = 3
  /\ Cardinality(IssuedTo("0xa")) = 2
  /\ \E s \in Slots : reqs[s].op = "nonce" /\ reqs[s].pc = "done"
                      /\ reqs[s].status = 200

\* Whether the message rebuilt at verification equals the issued one,
\* timestamp included, is decided inside createSignMessage and
\* recreateMessage of lib/crypto, which the sources do not contain; the
\* operators above follow the specification, by which the two agree, and so
\* no property of their round trip is stated here.

\* C23: however requests interleave, a verify keeps the user row as it is
\* stored at the moment of its read and goes on from its check only when
\* the signature matches the challenge of the nonce of that row; it gets to
\* minting only through the step that stores a fresh nonce; the set of tokens grows only by the token of such a request, for
\* its address; and every token belongs to an address with a logged
\* verification.
C23_LoginOrder ==
  [][/\ \A s \in Slots :
          /\ (reqs[s].op = "verify" /\ reqs[s].pc = "read" /\ reqs'[s].pc # "read")
               => LET key == toLowerCase(reqs[s].address)
                  IN IF key \in DOMAIN users
                     THEN reqs'[s].pc = "check" /\ reqs'[s].snap = <<users[key]>>
                     ELSE Answered(s, 404)
          /\ (reqs'[s].pc = "rotate" /\ reqs[s].pc # "rotate")
               => /\ reqs[s].op = "verify" /\ reqs[s].pc = "check"
                  /\ verifySignature(reqs[s].address,
                                     recreateMessage(reqs[s].snap[1].nonce,
                                                     reqs[s].address),
                                     reqs[s].body)
          /\ (reqs'[s].pc = "token" /\ reqs[s].pc # "token")
               => LET key == toLowerCase(reqs[s].address)
                  IN /\ reqs[s].op = "verify" /\ reqs[s].pc = "rotate"
                     /\ users'[key].nonce = reqs[s].held[1].nonce
                     /\ users'[key].nonce # reqs[s].snap[1].nonce
     /\ tokens' # tokens
          => \E s \in Slots :
               /\ reqs[s].op = "verify" /\ reqs[s].pc = "token"
               /\ Answered(s, 200)
               /\ \E t \in tokens' :
                    /\ tokens' = tokens \cup {t}
                    /\ t.payload.address = toLowerCase(reqs[s].address)
     /\ \A t \in tokens' :
          \E i \in 1..Len(authLog') : authLog'[i].address = t.payload.address]_vars

\* Wallet 0xa signed the challenge of nonce 1 and holds a token; its stored
\* nonce is the replacement, nonce 2.
C23_Witness ==
  /\ \E t \in tokens : t.payload.address = "0xa"
  /\ Len(authLog) = 1 /\ authLog[1].nonce.n = 1 /\ authLog[1].address = "0xa"
  /\ users["0xa"].nonce.n = 2
  /\ \E s \in Slots : VerifyOk(s)

-----------------------------------------------------------------------------
(* The foreign keys of db/schema.ts.  A role names its project, an         *)
(* application, an assignment and a KPI name their role (all four with     *)
(* onDelete: 'cascade'); a KPI may name an assignment (onDelete: 'set      *)
(* null').  The null assignment is 0.                                      *)

Without(table, ids) == [k \in DOMAIN table \ ids |-> table[k]]

RowsOfRoles(table, rs) == {k \in DOMAIN table : table[k].projectRoleId \in rs}

\* The KPI table after the roles rs and their assignments are deleted.
KpisAfterDelete(rs) ==
  LET gone == RowsOfRoles(assignments, rs)
      kept == Without(kpis, RowsOfRoles(kpis, rs))
  IN [k \in DOMAIN kept |->
        IF kept[k].assignmentId \in gone
        THEN [kept[k] EXCEPT !.assignmentId = 0]
        ELSE kept[k]]

\* Variant: deleting roles deletes nothing beneath them.
DeleteRolesNoCascade(rs) ==
  /\ roles' = Without(roles, rs)
  /\ UNCHANGED <<applications, assignments, kpis>>

\* DELETE of the roles rs, with what the database does for it.
DeleteRoles(rs) ==
  /\ roles' = Without(roles, rs)
  /\ applications' = Without(applications, RowsOfRoles(applications, rs))
  /\ assignments' = Without(assignments, RowsOfRoles(assignments, rs))
  /\ kpis' = KpisAfterDelete(rs)

-----------------------------------------------------------------------------
(* PUT /projects/:id                                                       *)

ProjectBodies ==
  { [title |-> <<>>, status |-> <<"draft">>],
    [title |-> <<"t1">>, status |-> <<"open">>] }

\* Variant: any signed-in caller may update the project.
ProjectUpdateReadNoOwnerCheck(s) ==
  /\ At(s, "project-update", "read")
  /\ LET existing == findFirst(projects, reqs[s].target)
     IN IF existing = <<>> THEN Answer(s, 404)
        ELSE Proceed(s, existing)
  /\ KeepStore

ProjectUpdateRead(s) ==
  /\ At(s, "project-update", "read")
  /\ LET existing == findFirst(projects, reqs[s].target)
     IN IF existing = <<>> THEN Answer(s, 404)
        ELSE IF existing[1].ownerAddress # reqs[s].address THEN Answer(s, 403)
        ELSE Proceed(s, existing)
  /\ KeepStore

\* .set({ ...body, ... }): the fields the body carries, no others.
ProjectUpdateWrite(s) ==
  /\ At(s, "project-update", "write")
  /\ LET id == reqs[s].target
         body == reqs[s].body
     IN projects' = IF id \in DOMAIN projects
                    THEN [projects EXCEPT
                            ![id].title = IF body.title # <<>> THEN body.title[1] ELSE @,
                            ![id].status = IF body.status # <<>> THEN body.status[1] ELSE @]
                    ELSE projects
  /\ Answer(s, 200)
  /\ UNCHANGED <<authVars, vaultVars, idCtr, roles, applications, assignments, kpis>>

-----------------------------------------------------------------------------
(* DELETE /projects/:id                                                    *)

\* Variant: a project of any status may be deleted.
ProjectDeleteReadAnyStatus(s) ==
  /\ At(s, "project-delete", "read")
  /\ LET existing == findFirst(projects, reqs[s].target)
     IN IF existing = <<>> THEN Answer(s, 404)
        ELSE IF existing[1].ownerAddress # reqs[s].address THEN Answer(s, 403)
        ELSE Proceed(s, existing)
  /\ KeepStore

ProjectDeleteRead(s) ==
  /\ At(s, "project-delete", "read")
  /\ LET existing == findFirst(projects, reqs[s].target)
     IN IF existing = <<>> THEN Answer(s, 404)
        ELSE IF existing[1].ownerAddress # reqs[s].address THEN Answer(s, 403)
        ELSE IF existing[1].status # "draft" THEN Answer(s, 400)
        ELSE Proceed(s, existing)
  /\ KeepStore

\* db.delete(projects).where(eq(projects.id, id))
ProjectDeleteWrite(s) ==
  /\ At(s, "project-delete", "write")
  /\ projects' = Without(projects, {reqs[s].target})
  /\ DeleteRoles(RolesOf(reqs[s].target))
  /\ Answer(s, 200)
  /\ UNCHANGED <<authVars, vaultVars, idCtr>>

-----------------------------------------------------------------------------
(* POST /projects/:id/roles                                                *)

NewRoleBodies == { [kpiCount |-> 2, paymentPerKpi |-> 3000] }

RoleAddRead(s) ==
  /\ At(s, "role-add", "read")
  /\ LET project == findFirst(projects, reqs[s].target)
     IN IF project = <<>> THEN Answer(s, 404)
        ELSE IF project[1].ownerAddress # reqs[s].address THEN Answer(s, 403)
        ELSE Proceed(s, project)
  /\ KeepStore

\* The insert of a role whose project is gone breaks the foreign key: the
\* statement throws and the request is answered 500.
RoleAddInsert(s) ==
  /\ At(s, "role-add", "write")
  /\ LET id == nanoid
         body == reqs[s].body
     IN /\ idCtr' = idCtr + 1
        /\ IF reqs[s].target \in DOMAIN projects
           THEN /\ roles' = Put(roles, id,
                                [projectId |-> reqs[s].target,
                                 kpiCount |-> body.kpiCount,
                                 paymentPerKpi |-> body.paymentPerKpi,
                                 status |-> "open"])
                /\ Answer(s, 201)
           ELSE /\ roles' = roles
                /\ Answer(s, 500)
  /\ UNCHANGED <<authVars, vaultVars, projects, applications, assignments, kpis>>

-----------------------------------------------------------------------------
(* DELETE /projects/:id/roles/:roleId                                      *)

RoleDeleteReadProject(s) ==
  /\ At(s, "role-delete", "read")
  /\ LET project == findFirst(projects, reqs[s].body.projectId)
     IN IF project = <<>> \/ project[1].ownerAddress # reqs[s].address
        THEN Answer(s, 403)
        ELSE reqs' = [reqs EXCEPT ![s].pc = "read-role", ![s].snap = project]
  /\ KeepStore

RoleDeleteReadRole(s) ==
  /\ At(s, "role-delete", "read-role")
  /\ LET role == findFirst(roles, reqs[s].body.roleId)
     IN IF role = <<>> \/ role[1].projectId # reqs[s].body.projectId
        THEN Answer(s, 404)
        ELSE reqs' = [reqs EXCEPT ![s].pc = "read-assignments", ![s].snap = role]
  /\ KeepStore

RoleDeleteReadAssignments(s) ==
  /\ At(s, "role-delete", "read-assignments")
  /\ LET activeAssignments == RowsOfRoles(assignments, {reqs[s].body.roleId})
     IN IF activeAssignments # {} THEN Answer(s, 400)
        ELSE reqs' = [reqs EXCEPT ![s].pc = "write"]
  /\ KeepStore

RoleDeleteWrite(s) ==
  /\ At(s, "role-delete", "write")
  /\ DeleteRoles({reqs[s].body.roleId} \cap DOMAIN roles)
  /\ Answer(s, 200)
  /\ UNCHANGED <<authVars, vaultVars, projects, idCtr>>

-----------------------------------------------------------------------------
(* POST /projects/:id/roles/:roleId/kpis                                   *)

Descriptor(n) == [kpiNumber |-> n, description |-> "d0", deadline |-> 0]

DescriptorLists == { <<Descriptor(1)>>, <<Descriptor(1), Descriptor(2)>> }

KpiCreateReadProject(s) ==
  /\ At(s, "kpi-create", "read")
  /\ LET project == findFirst(projects, reqs[s].body.projectId)
     IN IF project = <<>> \/ project[1].ownerAddress # reqs[s].address
        THEN Answer(s, 403)
        ELSE reqs' = [reqs EXCEPT ![s].pc = "read-role", ![s].snap = project]
  /\ KeepStore

KpiCreateReadRole(s) ==
  /\ At(s, "kpi-create", "read-role")
  /\ LET role == findFirst(roles, reqs[s].body.roleId)
     IN IF role = <<>> \/ role[1].projectId # reqs[s].body.projectId
        THEN Answer(s, 404)
        ELSE reqs' = [reqs EXCEPT ![s].pc = "read-kpis", ![s].snap = role]
  /\ KeepStore

\* Variant: KPIs are created whether or not the role has some already.
KpiCreateReadKpisAgain(s) ==
  /\ At(s, "kpi-create", "read-kpis")
  /\ LET role == reqs[s].snap[1]
     IN IF Len(reqs[s].body.kpis) # role.kpiCount THEN Answer(s, 400)
        ELSE reqs' = [reqs EXCEPT ![s].pc = "write"]
  /\ KeepStore

KpiCreateReadKpis(s) ==
  /\ At(s, "kpi-create", "read-kpis")
  /\ LET role == reqs[s].snap[1]
         existingKpis == RowsOfRoles(kpis, {reqs[s].body.roleId})
     IN IF existingKpis # {} THEN Answer(s, 400)
        ELSE IF Len(reqs[s].body.kpis) # role.kpiCount THEN Answer(s, 400)
        ELSE reqs' = [reqs EXCEPT ![s].pc = "write"]
  /\ KeepStore

\* One insert of all the rows; the i-th row takes the i-th fresh id.  The
\* amount is that of the role as it was read.  The database stamps
\* updatedAt with the time of the insert.
KpiCreateInsert(s) ==
  /\ At(s, "kpi-create", "write")
  /\ LET body == reqs[s].body
         role == reqs[s].snap[1]
         n == Len(body.kpis)
         ids == (idCtr + 1) .. (idCtr + n)
     IN /\ idCtr' = idCtr + n
        /\ IF body.roleId \in DOMAIN roles
           THEN /\ kpis' = [k \in DOMAIN kpis \cup ids |->
                              IF k \in ids
                              THEN [NewKpi(body.roleId, body.kpis[k - idCtr].kpiNumber,
                                           role.paymentPerKpi)
                                      EXCEPT !.description = body.kpis[k - idCtr].description,
                                             !.deadline = body.kpis[k - idCtr].deadline,
                                             !.updatedAt = now]
                              ELSE kpis[k]]
                /\ Answer(s, 201)
           ELSE /\ kpis' = kpis
                /\ Answer(s, 500)
  /\ UNCHANGED <<authVars, vaultVars, projects, roles, applications, assignments>>

-----------------------------------------------------------------------------
(* Two projects.  "0xa" created p1, gave it role 1 and left it a draft;    *)
(* "0xc" has applied for role 1.  "0xb" created p2 with role 2 and its one *)
(* KPI, and accepted the application of "0xc": assignment 3 holds KPI 4.   *)
(* Four ids have been drawn.                                               *)

InitProjects ==
  /\ users = [a \in Callers |-> [nonce |-> [n |-> 0, ts |-> 0]]]
  /\ nonceCtr = 0
  /\ now = 1
  /\ issued = {}
  /\ authLog = <<>>
  /\ tokens = {}
  /\ env = ConfiguredEnv
  /\ InitVault
  /\ projects = [p \in {"p1", "p2"} |->
                   [ownerAddress |-> IF p = "p1" THEN "0xa" ELSE "0xb",
                    title |-> "t0",
                    status |-> IF p = "p1" THEN "draft" ELSE "in_progress"]]
  /\ idCtr = 4
  /\ roles = [r \in {1, 2} |->
                [projectId |-> IF r = 1 THEN "p1" ELSE "p2", kpiCount |-> 1,
                 paymentPerKpi |-> IF r = 1 THEN 1000 ELSE 2000,
                 status |-> IF r = 1 THEN "open" ELSE "assigned"]]
  /\ applications =
       [a \in {"ap1", "ap2"} |->
          [projectRoleId |-> IF a = "ap1" THEN 1 ELSE 2,
           freelancerAddress |-> "0xc",
           status |-> IF a = "ap1" THEN "pending" ELSE "accepted"]]
  /\ assignments = [a \in {3} |->
                      [projectRoleId |-> 2, freelancerAddress |-> "0xc",
                       status |-> "active"]]
  /\ kpis = [k \in {4} |-> [NewKpi(2, 1, 2000) EXCEPT !.assignmentId = 3]]
  /\ reqs = [s \in Slots |-> IdleReq]

\* What requests name: both owners; each project and one that does not
\* exist; the role of each project, under its own project, under the
\* other and under none, and the first role to come.
Owners == {"0xa", "0xb"}
NamedProjects == {"p1", "p2", "p9"}

RolePaths ==
  { [projectId |-> "p1", roleId |-> 1], [projectId |-> "p2", roleId |-> 2],
    [projectId |-> "p2", roleId |-> 1], [projectId |-> "p9", roleId |-> 1],
    [projectId |-> "p1", roleId |-> 5] }

RoleUpdates ==
  { [projectId |-> path.projectId, roleId |-> path.roleId,
     status |-> <<>>, kpiCount |-> fields.kpiCount,
     paymentPerKpi |-> fields.paymentPerKpi] :
      path \in {q \in RolePaths : q.roleId = 1},
      fields \in { [kpiCount |-> <<>>, paymentPerKpi |-> <<5000>>],
                   [kpiCount |-> <<2>>, paymentPerKpi |-> <<>>],
                   [kpiCount |-> <<>>, paymentPerKpi |-> <<>>] } }

KpiCreations ==
  { [projectId |-> path.projectId, roleId |-> path.roleId, kpis |-> list] :
      path \in {q \in RolePaths : q.roleId # 5}, list \in DescriptorLists }

\* The ids the request in slot s is still to draw.
Reserved(s) ==
  IF reqs[s].op = "role-add" /\ ~Free(s) THEN 1
  ELSE IF reqs[s].op = "kpi-create" /\ ~Free(s) THEN Len(reqs[s].body.kpis)
  ELSE 0

RoomFor(n) == idCtr + Reserved(1) + Reserved(2) + n <= 4 + MaxIds

ProjectsStart(s) ==
  \E address \in Owners :
    \/ \E id \in NamedProjects : \E body \in ProjectBodies :
         StoreStart(s, "project-update", address, id, body)
    \/ \E id \in NamedProjects : StoreStart(s, "project-delete", address, id, NoBody)
    \/ \E id \in NamedProjects : StoreStart(s, "cancel", address, id, NoBody)
    \/ \E id \in {"p1", "p9"} : \E body \in NewRoleBodies :
         RoomFor(1) /\ StoreStart(s, "role-add", address, id, body)
    \/ \E body \in RoleUpdates : StoreStart(s, "role-update", address, "", body)
    \/ \E body \in RolePaths : StoreStart(s, "role-delete", address, "", body)
    \/ \E body \in KpiCreations :
         RoomFor(Len(body.kpis)) /\ StoreStart(s, "kpi-create", address, "", body)
    \/ \E body \in {b \in KpiMetaBodies : b.description # <<>>} :
         StoreStart(s, "kpi-meta", address, 4, body)

ProjectsStep(s) ==
  \/ ProjectUpdateRead(s) \/ ProjectUpdateWrite(s)
  \/ ProjectDeleteRead(s) \/ ProjectDeleteWrite(s)
  \/ RoleAddRead(s) \/ RoleAddInsert(s)
  \/ RoleDeleteReadProject(s) \/ RoleDeleteReadRole(s)
  \/ RoleDeleteReadAssignments(s) \/ RoleDeleteWrite(s)
  \/ KpiCreateReadProject(s) \/ KpiCreateReadRole(s)
  \/ KpiCreateReadKpis(s) \/ KpiCreateInsert(s)
  \/ ProjectStep(s)
  \/ KpiMetaRead(s) \/ KpiMetaWrite(s)

\* The project endpoints, one request at a time.
NextProjectsSeq == (InFlight = {} /\ ProjectsStart(1)) \/ ProjectsStep(1)

SpecProjectsSeq == InitProjects /\ [][NextProjectsSeq]_vars

\* Each owner works on their own project, two requests interleaving:
\* deleting the project or its role, setting its status; on p1 also adding
\* a role and creating the KPI of role 1.
OwnProjects == {[address |-> "0xa", id |-> "p1", roleId |-> 1],
                [address |-> "0xb", id |-> "p2", roleId |-> 2]}

ProjectsRaceStart(s) ==
  \/ \E own \in OwnProjects :
       \/ StoreStart(s, "project-delete", own.address, own.id, NoBody)
       \/ \E body \in ProjectBodies :
            StoreStart(s, "project-update", own.address, own.id, body)
       \/ StoreStart(s, "role-delete", own.address, "",
                     [projectId |-> own.id, roleId |-> own.roleId])
  \/ \E body \in NewRoleBodies :
       RoomFor(1) /\ StoreStart(s, "role-add", "0xa", "p1", body)
  \/ RoomFor(1) /\ StoreStart(s, "kpi-create", "0xa", "",
                               [projectId |-> "p1", roleId |-> 1,
                                kpis |-> <<Descriptor(1)>>])

ProjectsRaceStep(s) ==
  \/ ProjectUpdateRead(s) \/ ProjectUpdateWrite(s)
  \/ ProjectDeleteRead(s) \/ ProjectDeleteWrite(s)
  \/ RoleAddRead(s) \/ RoleAddInsert(s)
  \/ RoleDeleteReadProject(s) \/ RoleDeleteReadRole(s)
  \/ RoleDeleteReadAssignments(s) \/ RoleDeleteWrite(s)
  \/ KpiCreateReadProject(s) \/ KpiCreateReadRole(s)
  \/ KpiCreateReadKpis(s) \/ KpiCreateInsert(s)

NextProjectsRace == \E s \in Slots : ProjectsRaceStart(s) \/ ProjectsRaceStep(s)

SpecProjectsRace == InitProjects /\ [][NextProjectsRace]_vars

-----------------------------------------------------------------------------
(* Project deletion.                                                       *)

\* Request s is in flight for op.
Running(s, op) == reqs[s].op = op /\ ~Free(s)

\* The caller of request s owns project p, which exists.
OwnsProject(s, p) ==
  p \in DOMAIN projects /\ projects[p].ownerAddress = reqs[s].address

\* C24: a step of DELETE /projects/:id changes the store only by removing
\* the project it names, and only when the caller owns that project and
\* its status is draft; the request of the owner for a project of any
\* other status is answered 400 and the store is as it was.
C24_DeleteOnlyDraft ==
  [][\A s \in Slots : Running(s, "project-delete") =>
       LET id == reqs[s].target
       IN /\ storeVars' # storeVars =>
               /\ OwnsProject(s, id)
               /\ projects[id].status = "draft"
               /\ projects' = Without(projects, {id})
          /\ (At(s, "project-delete", "read") /\ reqs'[s] # reqs[s]
              /\ OwnsProject(s, id) /\ projects[id].status # "draft") =>
               Answered(s, 400) /\ storeVars' = storeVars]_vars

\* The owner of p1 deleted it as a draft; the owner of p2, which is in
\* progress, is refused.
C24_Witness ==
  /\ reqs[1].op = "project-delete" /\ reqs[1].status = 400
  /\ "p1" \notin DOMAIN projects
  /\ "p2" \in DOMAIN projects /\ projects["p2"].status = "in_progress"
  /\ DOMAIN kpis = {4}

-----------------------------------------------------------------------------
(* Ownership of what the project endpoints write.                          *)

ProjectEndpoints ==
  {"project-update", "project-delete", "cancel", "role-add", "role-update",
   "role-delete", "kpi-create", "kpi-meta"}

\* The rows of a table that a step adds, removes or changes.
Touched(before, after) ==
  {k \in DOMAIN before \cup DOMAIN after :
     \/ k \notin DOMAIN before
     \/ k \notin DOMAIN after
     \/ before[k] # after[k]}

\* The row of k, after the step if it is still there, before it if not.
RowOf(before, after, k) == IF k \in DOMAIN after THEN after[k] ELSE before[k]

\* By the store before the step, address owns the project p.
Owner(p, address) == p \in DOMAIN projects /\ projects[p].ownerAddress = address

\* C25: a step of a project endpoint adds, removes or changes a project,
\* a role or a KPI only if the caller is the owner of the project it is
\* or lies under; no step changes the owner of a project.
C25_OwnerOnlyMutation ==
  [][/\ \A s \in Slots :
          (reqs[s].op \in ProjectEndpoints /\ reqs'[s] # reqs[s]) =>
            /\ \A p \in Touched(projects, projects') : Owner(p, reqs[s].address)
            /\ \A r \in Touched(roles, roles') :
                 Owner(RowOf(roles, roles', r).projectId, reqs[s].address)
            /\ \A k \in Touched(kpis, kpis') :
                 LET r == RowOf(kpis, kpis', k).projectRoleId
                 IN r \in DOMAIN roles /\ Owner(roles[r].projectId, reqs[s].address)
     /\ \A p \in DOMAIN projects \cap DOMAIN projects' :
          projects'[p].ownerAddress = projects[p].ownerAddress]_vars

\* "0xa", who does not own p2, has just been refused a change to it, after
\* the owners made changes of their own: p1 has a second role and role 1
\* its KPI.
C25_Witness ==
  /\ reqs[1].op \in ProjectEndpoints /\ reqs[1].status = 403
  /\ Cardinality(RolesOf("p1")) = 2
  /\ RowsOfRoles(kpis, {1}) # {}
  /\ "p2" \in DOMAIN projects /\ projects["p2"].status = "cancelled"

-----------------------------------------------------------------------------
(* Referential integrity.                                                  *)

\* Every child row names a parent row that exists.
RefIntegrity ==
  /\ \A r \in DOMAIN roles : roles[r].projectId \in DOMAIN projects
  /\ \A a \in DOMAIN applications : applications[a].projectRoleId \in DOMAIN roles
  /\ \A a \in DOMAIN assignments : assignments[a].projectRoleId \in DOMAIN roles
  /\ \A k \in DOMAIN kpis :
       /\ kpis[k].projectRoleId \in DOMAIN roles
       /\ kpis[k].assignmentId = 0 \/ kpis[k].assignmentId \in DOMAIN assignments

\* C26: every step leaves each role, application, assignment and KPI
\* naming an existing parent and each KPI naming no assignment or an
\* existing one; and the step that deletes a project leaves no role of it
\* and no application, assignment or KPI of its roles.
C26_ReferentialIntegrity ==
  [][/\ RefIntegrity'
     /\ \A p \in DOMAIN projects \ DOMAIN projects' :
          /\ RolesOf(p) \cap DOMAIN roles' = {}
          /\ RowsOfRoles(applications, RolesOf(p)) \cap DOMAIN applications' = {}
          /\ RowsOfRoles(assignments, RolesOf(p)) \cap DOMAIN assignments' = {}
          /\ RowsOfRoles(kpis, RolesOf(p)) \cap DOMAIN kpis' = {}]_vars

\* The owner of p2 made it a draft again and deleted it: its role, the
\* accepted application, the assignment and the KPI went with it, while p1
\* keeps its role and the application for it.
C26_Witness ==
  /\ "p2" \notin DOMAIN projects /\ "p1" \in DOMAIN projects
  /\ DOMAIN roles \cap {1, 2} = {1}
  /\ DOMAIN applications = {"ap1"}
  /\ DOMAIN assignments = {} /\ 4 \notin DOMAIN kpis

-----------------------------------------------------------------------------
(* Creation of the KPIs of a role.                                         *)

\* C27: a step of POST /projects/:id/roles/:roleId/kpis for a role that
\* has a KPI, or with a number of descriptors other than the role's
\* kpiCount, leaves the KPI table as it was, and the step that finds this
\* out answers 400.  The step that does change the table is taken for the
\* owner, keeps the rows there were and adds one row per descriptor, each
\* pending, with no assignment and with the role's paymentPerKpi as amount.
C27_KpisCreatedOnce ==
  [][\A s \in Slots : (Running(s, "kpi-create") /\ reqs'[s] # reqs[s]) =>
       LET body == reqs[s].body
           r == body.roleId
           made == DOMAIN kpis' \ DOMAIN kpis
           refused == \/ RowsOfRoles(kpis, {r}) # {}
                      \/ r \in DOMAIN roles /\ Len(body.kpis) # roles[r].kpiCount
       IN /\ refused => kpis' = kpis
          /\ (refused /\ At(s, "kpi-create", "read-kpis")) => Answered(s, 400)
          /\ kpis' # kpis =>
               /\ Owner(body.projectId, reqs[s].address)
               /\ roles[r].projectId = body.projectId
               /\ \A k \in DOMAIN kpis : k \in DOMAIN kpis' /\ kpis'[k] = kpis[k]
               /\ Cardinality(made) = Len(body.kpis)
               /\ \A k \in made :
                    /\ kpis'[k].projectRoleId = r
                    /\ kpis'[k].status = "pending"
                    /\ kpis'[k].assignmentId = 0
                    /\ kpis'[k].amount = roles[r].paymentPerKpi]_vars

\* The owner raised the payment of role 1 to 5000 and then created its
\* KPI, which carries that amount; a second creation has been answered 400.
C27_Witness ==
  /\ reqs[1].op = "kpi-create" /\ reqs[1].status = 400
  /\ \E k \in RowsOfRoles(kpis, {1}) : kpis[k].amount = 5000
  /\ Cardinality(RowsOfRoles(kpis, {1})) = 1

-----------------------------------------------------------------------------
(* The order of the checks of the role endpoints.                          *)

RoleEndpoints == {"role-update", "role-delete", "kpi-create"}

\* C28: the first step of a role update, a role delete or a KPI creation
\* that names a project which does not exist answers 404.
C28_MissingProjectIs404 ==
  [][\A s \in Slots :
       (reqs[s].op \in RoleEndpoints /\ reqs[s].pc = "read" /\ reqs'[s] # reqs[s]
        /\ reqs[s].body.projectId \notin DOMAIN projects) =>
         Answered(s, 404)]_vars

-----------------------------------------------------------------------------
(* Amounts.  The amount columns are text; a text is the sequence of its    *)
(* characters.  BigInt(text) is the integer a text denotes, as <<n>>, or   *)
(* <<>> where BigInt throws a SyntaxError.                                 *)

\* The digits of the numerals, in the order of their values; the letters
\* also count in upper case.
DigitChars ==
  <<"0", "1", "2", "3", "4", "5", "6", "7", "8", "9", "a", "b", "c", "d", "e", "f">>

DigitOf(char) ==
  LET upper == <<"A", "B", "C", "D", "E", "F">>
  IN IF \E d \in 1..6 : upper[d] = char
     THEN 9 + (CHOOSE d \in 1..6 : upper[d] = char)
     ELSE (CHOOSE d \in 1..16 : DigitChars[d] = char) - 1

\* The text is a non-empty run of digits of the radix.
IsDigits(text, radix) ==
  /\ Len(text) > 0
  /\ \A i \in 1..Len(text) :
       /\ \/ \E d \in 1..16 : DigitChars[d] = text[i]
          \/ text[i] \in {"A", "B", "C", "D", "E", "F"}
       /\ DigitOf(text[i]) < radix

RECURSIVE ValueOf(_, _)
ValueOf(text, radix) ==
  IF text = <<>> THEN 0
  ELSE radix * ValueOf(SubSeq(text, 1, Len(text) - 1), radix) + DigitOf(text[Len(text)])

\* StringToBigInt: white space around the numeral is dropped and what is
\* left is nothing (0n), a decimal numeral with an optional sign, or an
\* unsigned numeral behind 0x, 0o or 0b; any other text throws.  White
\* space is every WhiteSpace and LineTerminator code point (TAB, VT, FF,
\* SP, NBSP, ZWNBSP, the space separators, LF, CR, LS, PS).  A character
\* of a text is the character itself or, for a code point a string of
\* this module cannot hold, its escape \uXXXX; NBSP, U+1680 and ZWNBSP are
\* listed in both spellings.
BigInt(text) ==
  LET white == {" ", "\t", "\n", "\r", "\f", " ", " ", "﻿",
                "\\u0009", "\\u000A", "\\u000B", "\\u000C", "\\u000D", "\\u0020",
                "\\u00A0", "\\u1680", "\\u2000", "\\u2001", "\\u2002", "\\u2003",
                "\\u2004", "\\u2005", "\\u2006", "\\u2007", "\\u2008", "\\u2009",
                "\\u200A", "\\u2028", "\\u2029", "\\u202F", "\\u205F", "\\u3000",
                "\\uFEFF"}
      inked == {i \in 1..Len(text) : text[i] \notin white}
      first == CHOOSE i \in inked : \A j \in inked : i <= j
      last == CHOOSE i \in inked : \A j \in inked : i >= j
      trimmed == IF inked = {} THEN <<>> ELSE SubSeq(text, first, last)
      prefix == IF Len(trimmed) >= 2 THEN SubSeq(trimmed, 1, 2) ELSE <<>>
      rest == SubSeq(trimmed, 3, Len(trimmed))
      radix == IF prefix \in {<<"0", "x">>, <<"0", "X">>} THEN 16
               ELSE IF prefix \in {<<"0", "o">>, <<"0", "O">>} THEN 8
               ELSE IF prefix \in {<<"0", "b">>, <<"0", "B">>} THEN 2
               ELSE 10
  IN IF trimmed = <<>> THEN <<0>>
     ELSE IF radix # 10
          THEN IF IsDigits(rest, radix) THEN <<ValueOf(rest, radix)>> ELSE <<>>
     ELSE IF IsDigits(trimmed, 10) THEN <<ValueOf(trimmed, 10)>>
     ELSE IF trimmed[1] = "-" /\ IsDigits(Tail(trimmed), 10)
          THEN <<0 - ValueOf(Tail(trimmed), 10)>>
     ELSE IF trimmed[1] = "+" /\ IsDigits(Tail(trimmed), 10)
          THEN <<ValueOf(Tail(trimmed), 10)>>
     ELSE <<>>

RECURSIVE DigitsOf(_)
DigitsOf(n) ==
  IF n < 10 THEN <<DigitChars[n + 1]>>
  ELSE DigitsOf(n \div 10) \o <<DigitChars[(n % 10) + 1]>>

\* BigInt.prototype.toString()
toString(n) == IF n < 0 THEN <<"-">> \o DigitsOf(0 - n) ELSE DigitsOf(n)

\* The reply with a JSON body.
Reply(s, code, json) ==
  reqs' = [reqs EXCEPT ![s].pc = "done", ![s].status = code, ![s].snap = <<json>>]

-----------------------------------------------------------------------------
(* GET /users/me/balance                                                   *)

RECURSIVE SumAmounts(_)
\* reduce((sum, k) => sum + BigInt(k.amount), 0n) over the KPIs ks.
SumAmounts(ks) ==
  IF ks = {} THEN 0
  ELSE LET k == CHOOSE x \in ks : TRUE
       IN BigInt(kpis[k].amount)[1] + SumAmounts(ks \ {k})

Balance(total, pending, approved) ==
  [availableBalance |-> toString(total), pendingKpis |-> pending,
   approvedKpis |-> approved, totalEarned |-> toString(total)]

BalanceReadAssignments(s) ==
  /\ At(s, "balance", "read")
  /\ LET assignmentIds == {a \in DOMAIN assignments :
                             assignments[a].freelancerAddress = reqs[s].address}
     IN IF assignmentIds = {} THEN Reply(s, 200, Balance(0, 0, 0))
        ELSE reqs' = [reqs EXCEPT ![s].pc = "read-kpis", ![s].snap = <<assignmentIds>>]
  /\ KeepStore

\* Variant: paid KPIs are not counted.
BalanceReadKpisApprovedOnly(s) ==
  /\ At(s, "balance", "read-kpis")
  /\ LET allUserKpis == {k \in DOMAIN kpis : kpis[k].assignmentId \in reqs[s].snap[1]}
         approvedKpis == {k \in allUserKpis : kpis[k].status = "approved"}
         pendingKpis == {k \in allUserKpis : kpis[k].status = "submitted"}
     IN Reply(s, 200, Balance(SumAmounts(approvedKpis), Cardinality(pendingKpis),
                              Cardinality(approvedKpis)))
  /\ KeepStore

BalanceReadKpis(s) ==
  /\ At(s, "balance", "read-kpis")
  /\ LET allUserKpis == {k \in DOMAIN kpis : kpis[k].assignmentId \in reqs[s].snap[1]}
         approvedKpis == {k \in allUserKpis : kpis[k].status \in {"approved", "paid"}}
         pendingKpis == {k \in allUserKpis : kpis[k].status = "submitted"}
     IN IF \E k \in approvedKpis : BigInt(kpis[k].amount) = <<>>
        THEN Reply(s, 500, NoBody)
        ELSE Reply(s, 200, Balance(SumAmounts(approvedKpis), Cardinality(pendingKpis),
                                   Cardinality(approvedKpis)))
  /\ KeepStore

-----------------------------------------------------------------------------
(* The stores of a project whose three roles each have one KPI and an      *)
(* accepted freelancer: "0xb" for r1 and r2, "0xc" for r3.  The roles pay  *)
(* "1000", "0250" and "30".  A KPI created after the acceptance is not     *)
(* linked to the assignment and is pending; a linked one is anywhere in    *)
(* its life.                                                               *)

BalanceKpis == {"k1", "k2", "k3"}
RoleOfKpi == [k \in BalanceKpis |-> IF k = "k1" THEN "r1" ELSE IF k = "k2" THEN "r2" ELSE "r3"]
AssignmentOfKpi == [k \in BalanceKpis |-> IF k = "k1" THEN 1 ELSE IF k = "k2" THEN 2 ELSE 3]
PaymentOfRole ==
  [r \in {"r1", "r2", "r3"} |->
     IF r = "r1" THEN <<"1", "0", "0", "0">>
     ELSE IF r = "r2" THEN <<"0", "2", "5", "0">>
     ELSE <<"3", "0">>]

KpiLives ==
  {[assignmentId |-> 0, status |-> "pending"]}
    \cup {[assignmentId |-> 1, status |-> st] :
            st \in {"pending", "submitted", "approved", "rejected", "paid"}}

InitBalance ==
  /\ users = [a \in Callers |-> [nonce |-> [n |-> 0, ts |-> 0]]]
  /\ nonceCtr = 0
  /\ now = 1
  /\ issued = {}
  /\ authLog = <<>>
  /\ tokens = {}
  /\ env = ConfiguredEnv
  /\ InitVault
  /\ projects = [p \in {"p1"} |-> [ownerAddress |-> "0xa", status |-> "in_progress"]]
  /\ idCtr = 3
  /\ roles = [r \in {"r1", "r2", "r3"} |->
                [projectId |-> "p1", kpiCount |-> 1,
                 paymentPerKpi |-> PaymentOfRole[r], status |-> "assigned"]]
  /\ applications =
       [a \in {"ap1", "ap2", "ap3"} |->
          [projectRoleId |-> IF a = "ap1" THEN "r1" ELSE IF a = "ap2" THEN "r2" ELSE "r3",
           freelancerAddress |-> IF a = "ap3" THEN "0xc" ELSE "0xb",
           status |-> "accepted"]]
  /\ assignments =
       [a \in {1, 2, 3} |->
          [projectRoleId |-> IF a = 1 THEN "r1" ELSE IF a = 2 THEN "r2" ELSE "r3",
           freelancerAddress |-> IF a = 3 THEN "0xc" ELSE "0xb",
           status |-> "active"]]
  /\ \E life \in [BalanceKpis -> KpiLives] :
       kpis = [k \in BalanceKpis |->
                 [NewKpi(RoleOfKpi[k], 1, PaymentOfRole[RoleOfKpi[k]]) EXCEPT
                    !.assignmentId = IF life[k].assignmentId = 0 THEN 0
                                     ELSE AssignmentOfKpi[k],
                    !.status = life[k].status]]
  /\ reqs = [s \in Slots |-> IdleReq]

BalanceStart(s) ==
  \E address \in Callers : StoreStart(s, "balance", address, "", NoBody)

NextBalance ==
  \E s \in Slots : BalanceStart(s) \/ BalanceReadAssignments(s) \/ BalanceReadKpis(s)

SpecBalance == InitBalance /\ [][NextBalance]_vars

\* What each KPI is worth.
Worth == [k \in BalanceKpis |-> IF k = "k1" THEN 1000 ELSE IF k = "k2" THEN 250 ELSE 30]

\* The KPIs linked to an assignment of the freelancer, by status.
KpisOf(freelancer, statuses) ==
  {k \in DOMAIN kpis :
     /\ kpis[k].assignmentId \in DOMAIN assignments
     /\ assignments[kpis[k].assignmentId].freelancerAddress = freelancer
     /\ kpis[k].status \in statuses}

Earned(freelancer) ==
  LET mine == KpisOf(freelancer, {"approved", "paid"})
  IN (IF "k1" \in mine THEN Worth["k1"] ELSE 0)
       + (IF "k2" \in mine THEN Worth["k2"] ELSE 0)
       + (IF "k3" \in mine THEN Worth["k3"] ELSE 0)

\* C29: the answer to GET /users/me/balance is 200 and carries, as
\* availableBalance and as totalEarned, the decimal numeral without leading
\* zeros of the sum of what the caller's approved and paid KPIs are worth,
\* as pendingKpis the number of the caller's submitted KPIs and as
\* approvedKpis the number of the caller's approved and paid KPIs.
C29_Balance ==
  \A s \in Slots : (reqs[s].op = "balance" /\ reqs[s].pc = "done") =>
    LET json == reqs[s].snap[1]
        F == reqs[s].address
    IN /\ reqs[s].status = 200
       /\ json.availableBalance = json.totalEarned
       /\ BigInt(json.totalEarned) = <<Earned(F)>>
       /\ json.totalEarned[1] = "0" => Earned(F) = 0
       /\ json.pendingKpis = Cardinality(KpisOf(F, {"submitted"}))
       /\ json.approvedKpis = Cardinality(KpisOf(F, {"approved", "paid"}))

\* "0xb" has an approved KPI worth 1000 and a paid one whose amount is
\* stored as "0250"; "0xc" has an approved one too.  The balance of "0xb"
\* is "1250".
C29_Witness ==
  /\ reqs[1].op = "balance" /\ reqs[1].pc = "done" /\ reqs[1].address = "0xb"
  /\ reqs[1].snap[1].totalEarned = <<"1", "2", "5", "0">>
  /\ reqs[1].snap[1].approvedKpis = 2
  /\ kpis["k1"].status = "approved" /\ kpis["k2"].status = "paid"
  /\ kpis["k3"].status = "approved"

-----------------------------------------------------------------------------
(* The split of the yield of a KPI.                                        *)

\* a / b on BigInts, b positive: the quotient truncated toward zero.
Quot(a, b) == IF a >= 0 THEN a \div b ELSE 0 - ((0 - a) \div b)

\* text || '0'
OrZero(text) == IF text = <<>> THEN <<"0">> ELSE text

\* The amounts both views compute from a KPI row, as <<amounts>>, or <<>>
\* where a BigInt() throws.
Split(kpi) ==
  LET baseAmount == BigInt(kpi.amount)
      yieldEarned == BigInt(OrZero(kpi.yieldEarned))
      penaltyAmount == BigInt(OrZero(kpi.penaltyAmount))
  IN IF baseAmount = <<>> \/ yieldEarned = <<>> \/ penaltyAmount = <<>> THEN <<>>
     ELSE LET freelancerYield == Quot(yieldEarned[1] * 40, 100)
              ownerYield == Quot(yieldEarned[1] * 40, 100)
              devYield == Quot(yieldEarned[1] * 20, 100)
          IN <<[baseAmount |-> baseAmount[1], yieldEarned |-> yieldEarned[1],
                penaltyAmount |-> penaltyAmount[1],
                freelancerYield |-> freelancerYield,
                freelancerTotal |-> baseAmount[1] + freelancerYield - penaltyAmount[1],
                ownerTotal |-> ownerYield, devTotal |-> devYield]>>

\* GET /kpis/:id/breakdown
BreakdownRead(s) ==
  /\ At(s, "breakdown", "read")
  /\ LET kpi == KpiView(reqs[s].target)
     IN IF kpi = <<>> THEN Reply(s, 404, NoBody)
        ELSE LET isOwner == kpi[1].ownerAddress = reqs[s].address
                 isFreelancer == /\ kpi[1].assignment # <<>>
                                 /\ kpi[1].assignment[1].freelancerAddress = reqs[s].address
                 split == Split(kpi[1].kpi)
             IN IF ~isOwner /\ ~isFreelancer THEN Reply(s, 403, NoBody)
                ELSE IF split = <<>> THEN Reply(s, 500, NoBody)
                ELSE Reply(s, 200,
                       [amounts |->
                          [baseAmount |-> toString(split[1].baseAmount),
                           yieldEarned |-> toString(split[1].yieldEarned),
                           penaltyAmount |-> toString(split[1].penaltyAmount)],
                        distribution |->
                          [freelancer |-> toString(split[1].freelancerTotal),
                           projectOwner |-> toString(split[1].ownerTotal),
                           devWallet |-> toString(split[1].devTotal)]])
  /\ KeepStore

RECURSIVE Total(_, _)
\* reduce((sum, w) => sum + BigInt(w.amounts[field]), 0n)
Total(withdrawals, field) ==
  IF DOMAIN withdrawals = {} THEN 0
  ELSE LET k == CHOOSE x \in DOMAIN withdrawals : TRUE
       IN BigInt(withdrawals[k][field])[1] + Total(Without(withdrawals, {k}), field)

\* GET /users/me/onchain-portfolio
PortfolioRead(s) ==
  /\ At(s, "portfolio", "read")
  /\ LET userPaidKpis ==
           {k \in DOMAIN kpis :
              /\ kpis[k].status = "paid"
              /\ kpis[k].assignmentId \in DOMAIN assignments
              /\ assignments[kpis[k].assignmentId].freelancerAddress = reqs[s].address}
     IN IF \E k \in userPaidKpis : Split(kpis[k]) = <<>> THEN Reply(s, 500, NoBody)
        ELSE LET withdrawals ==
                   [k \in userPaidKpis |->
                      [base |-> toString(Split(kpis[k])[1].baseAmount),
                       yield |-> toString(Split(kpis[k])[1].freelancerYield),
                       penalty |-> toString(Split(kpis[k])[1].penaltyAmount),
                       total |-> toString(Split(kpis[k])[1].freelancerTotal)]]
             IN Reply(s, 200,
                  [stats |-> [totalWithdrawals |-> Cardinality(userPaidKpis),
                              totalBase |-> toString(Total(withdrawals, "base")),
                              totalYield |-> toString(Total(withdrawals, "yield")),
                              totalPenalty |-> toString(Total(withdrawals, "penalty")),
                              totalReceived |-> toString(Total(withdrawals, "total"))],
                   withdrawals |-> withdrawals])
  /\ KeepStore

-----------------------------------------------------------------------------
(* A project of "0xa" whose role r1 is held by "0xb"; its KPI k1, worth    *)
(* "1000", is approved.  The owner records payouts, with the yield and the *)
(* penalty the body gives, and both parties read the split.                *)

MaxYield == 7

\* recordPayoutSchema: yieldEarned and penaltyAmount are any string.
YieldTexts ==
  {toString(n) : n \in (0 - 2)..MaxYield}
    \cup {<<>>, <<"a">>, <<"0", "x", "A">>, <<" ", "1", "2", " ">>, <<" ">>, <<"0", "x">>,
          <<"\f", "1">>}
PenaltyTexts == {<<"0">>, <<"5">>, <<>>, <<"\\u00A0", "3">>}

YieldBodies ==
  { [txHash |-> "0xpay", vaultBalance |-> "4000", yieldEarned |-> y,
     penaltyAmount |-> p] : y \in YieldTexts, p \in PenaltyTexts }

InitYield ==
  /\ users = [a \in Callers |-> [nonce |-> [n |-> 0, ts |-> 0]]]
  /\ nonceCtr = 0
  /\ now = 1
  /\ issued = {}
  /\ authLog = <<>>
  /\ tokens = {}
  /\ env = ConfiguredEnv
  /\ InitVault
  /\ projects = [p \in {"p1"} |-> [ownerAddress |-> "0xa", status |-> "in_progress"]]
  /\ idCtr = 1
  /\ roles = [r \in {"r1"} |->
                [projectId |-> "p1", kpiCount |-> 1,
                 paymentPerKpi |-> <<"1", "0", "0", "0">>, status |-> "assigned"]]
  /\ applications =
       [a \in {"ap1"} |->
          [projectRoleId |-> "r1", freelancerAddress |-> "0xb", status |-> "accepted"]]
  /\ assignments =
       [a \in {1} |->
          [projectRoleId |-> "r1", freelancerAddress |-> "0xb", status |-> "active"]]
  /\ kpis = [k \in {"k1"} |->
               [NewKpi("r1", 1, <<"1", "0", "0", "0">>) EXCEPT
                  !.assignmentId = 1, !.status = "approved",
                  !.yieldEarned = <<"0">>, !.penaltyAmount = <<"0">>]]
  /\ reqs = [s \in Slots |-> IdleReq]

YieldStart(s) ==
  \E address \in Callers :
    \/ \E body \in YieldBodies : StoreStart(s, "record-payout", address, "k1", body)
    \/ \E id \in KpiIds : StoreStart(s, "breakdown", address, id, NoBody)
    \/ StoreStart(s, "portfolio", address, "", NoBody)

NextYield ==
  \/ InFlight = {} /\ YieldStart(1)
  \/ RecordPayoutRead(1) \/ RecordPayoutWrite(1)
  \/ BreakdownRead(1) \/ PortfolioRead(1)

SpecYield == InitYield /\ [][NextYield]_vars

\* The owner of KPI k or the freelancer assigned to it.
MayView(k, address) ==
  \/ OwnerOf(k) = address
  \/ Assigned(k) /\ FreelancerOf(k) = address

\* C30: the breakdown of a KPI, asked for by its owner or its freelancer,
\* is answered 200 with projectOwner = floor(yieldEarned * 40 / 100),
\* devWallet = floor(yieldEarned * 20 / 100) and freelancer = amount +
\* floor(yieldEarned * 40 / 100) - penaltyAmount, a missing yield or
\* penalty counting as 0, and the three shares of the yield together are
\* at most yieldEarned.
C30_YieldSplit ==
  [][\A s \in Slots :
       (At(s, "breakdown", "read") /\ reqs'[s] # reqs[s]
        /\ reqs[s].target \in DOMAIN kpis /\ MayView(reqs[s].target, reqs[s].address)) =>
         LET kpi == kpis[reqs[s].target]
             json == reqs'[s].snap[1]
         IN /\ Answered(s, 200)
            /\ LET amount == BigInt(kpi.amount)[1]
                   y == BigInt(OrZero(kpi.yieldEarned))[1]
                   penalty == BigInt(OrZero(kpi.penaltyAmount))[1]
                   freelancerYield == (y * 40) \div 100
                   ownerYield == (y * 40) \div 100
                   devYield == (y * 20) \div 100
               IN /\ BigInt(json.distribution.projectOwner) = <<ownerYield>>
                  /\ BigInt(json.distribution.devWallet) = <<devYield>>
                  /\ BigInt(json.distribution.freelancer) =
                       <<amount + freelancerYield - penalty>>
                  /\ freelancerYield + ownerYield + devYield <= y]_vars

-----------------------------------------------------------------------------
(* GET /users/me/earnings                                                  *)

\* The from and to of the query string, as instants.
EarningsQueries ==
  { [from |-> <<>>, to |-> <<>>], [from |-> <<2>>, to |-> <<>>],
    [from |-> <<>>, to |-> <<0>>] }

RECURSIVE SumField(_, _)
\* reduce((sum, k) => sum + BigInt(k[field] || '0'), 0n) over the KPIs ks.
SumField(ks, field) ==
  IF ks = {} THEN 0
  ELSE LET k == CHOOSE x \in ks : TRUE
       IN BigInt(OrZero(kpis[k][field]))[1] + SumField(ks \ {k}, field)

EarningsRead(s) ==
  /\ At(s, "earnings", "read")
  /\ LET query == reqs[s].body
         userPaidKpis ==
           {k \in DOMAIN kpis :
              /\ kpis[k].status = "paid"
              /\ kpis[k].assignmentId \in DOMAIN assignments
              /\ assignments[kpis[k].assignmentId].freelancerAddress = reqs[s].address}
         filteredKpis ==
           {k \in userPaidKpis :
              /\ query.from = <<>> \/ kpis[k].updatedAt >= query.from[1]
              /\ query.to = <<>> \/ kpis[k].updatedAt <= query.to[1]}
     IN IF \E k \in filteredKpis : Split(kpis[k]) = <<>> THEN Reply(s, 500, NoBody)
        ELSE LET totalBase == SumField(filteredKpis, "amount")
                 totalYield == Quot(SumField(filteredKpis, "yieldEarned") * 40, 100)
                 totalPenalty == SumField(filteredKpis, "penaltyAmount")
                 totalReceived == totalBase + totalYield - totalPenalty
             IN Reply(s, 200,
                  [summary |-> [totalKpis |-> Cardinality(filteredKpis),
                                totalBase |-> toString(totalBase),
                                totalYield |-> toString(totalYield),
                                totalPenalty |-> toString(totalPenalty),
                                totalReceived |-> toString(totalReceived)],
                   earnings |->
                     [k \in filteredKpis |->
                        [amount |-> kpis[k].amount,
                         yield |-> toString(Split(kpis[k])[1].freelancerYield),
                         penalty |-> OrZero(kpis[k].penaltyAmount),
                         total |-> toString(Split(kpis[k])[1].freelancerTotal)]]])
  /\ KeepStore

-----------------------------------------------------------------------------
(* A project of "0xa" whose roles r1 and r2 are both held by "0xb"; their  *)
(* KPIs k1 and k2, worth "1000" each, are approved.  The owner records     *)
(* payouts with small yields and "0xb" reads the earnings.                 *)

SmallYieldBodies ==
  {b \in YieldBodies : b.yieldEarned \in {<<"1">>, <<"2">>, <<"5">>, <<"0", "x", "A">>}
                       /\ b.penaltyAmount = <<"0">>}

InitEarnings ==
  /\ users = [a \in Callers |-> [nonce |-> [n |-> 0, ts |-> 0]]]
  /\ nonceCtr = 0
  /\ now = 1
  /\ issued = {}
  /\ authLog = <<>>
  /\ tokens = {}
  /\ env = ConfiguredEnv
  /\ InitVault
  /\ projects = [p \in {"p1"} |-> [ownerAddress |-> "0xa", status |-> "in_progress"]]
  /\ idCtr = 2
  /\ roles = [r \in {"r1", "r2"} |->
                [projectId |-> "p1", kpiCount |-> 1,
                 paymentPerKpi |-> <<"1", "0", "0", "0">>, status |-> "assigned"]]
  /\ applications =
       [a \in {"ap1", "ap2"} |->
          [projectRoleId |-> IF a = "ap1" THEN "r1" ELSE "r2",
           freelancerAddress |-> "0xb", status |-> "accepted"]]
  /\ assignments =
       [a \in {1, 2} |->
          [projectRoleId |-> IF a = 1 THEN "r1" ELSE "r2",
           freelancerAddress |-> "0xb", status |-> "active"]]
  /\ kpis = [k \in {"k1", "k2"} |->
               [NewKpi(IF k = "k1" THEN "r1" ELSE "r2", 1, <<"1", "0", "0", "0">>) EXCEPT
                  !.assignmentId = IF k = "k1" THEN 1 ELSE 2, !.status = "approved",
                  !.yieldEarned = <<"0">>, !.penaltyAmount = <<"0">>]]
  /\ reqs = [s \in Slots |-> IdleReq]

EarningsStart(s) ==
  \E address \in {"0xa", "0xb"} :
    \/ \E id \in {"k1", "k2"} : \E body \in SmallYieldBodies :
         StoreStart(s, "record-payout", address, id, body)
    \/ \E query \in EarningsQueries : StoreStart(s, "earnings", address, "", query)
    \/ StoreStart(s, "portfolio", address, "", NoBody)

NextEarnings ==
  \/ InFlight = {} /\ EarningsStart(1)
  \/ RecordPayoutRead(1) \/ RecordPayoutWrite(1)
  \/ EarningsRead(1) \/ PortfolioRead(1)

SpecEarnings == InitEarnings /\ [][NextEarnings]_vars

\* C31: the earnings summary's totalYield is the sum of the yield entries
\* returned with it, each KPI's own truncated share, and its totalReceived
\* is the sum of the total entries.
C31_SummaryIsSumOfEntries ==
  [][\A s \in Slots :
       (At(s, "earnings", "read") /\ reqs'[s] # reqs[s] /\ reqs'[s].status = 200) =>
         LET json == reqs'[s].snap[1]
         IN /\ BigInt(json.summary.totalYield) = <<Total(json.earnings, "yield")>>
            /\ BigInt(json.summary.totalReceived) = <<Total(json.earnings, "total")>>]_vars

-----------------------------------------------------------------------------
(* GET /users/me/project-balances                                          *)

\* project.roles.flatMap(r => r.kpis).filter(k => k.status === status)
KpisUnder(projectId, status) ==
  {k \in DOMAIN kpis : /\ roles[kpis[k].projectRoleId].projectId = projectId
                       /\ kpis[k].status = status}

RECURSIVE TotalsOf(_, _)
\* projectBalances.reduce(...) for one field of the entries.
TotalsOf(projectBalances, field) ==
  IF DOMAIN projectBalances = {} THEN 0
  ELSE LET p == CHOOSE x \in DOMAIN projectBalances : TRUE
       IN BigInt(projectBalances[p][field])[1]
            + TotalsOf(Without(projectBalances, {p}), field)

\* Variant: approved KPIs count as spent.
ProjectBalanceCountsApproved(projectId) ==
  LET totalDeposited == BigInt(OrZero(projects[projectId].totalDeposited))[1]
      totalSpent == SumAmounts(KpisUnder(projectId, "paid")
                                 \cup KpisUnder(projectId, "approved"))
      totalPending == SumAmounts(KpisUnder(projectId, "approved"))
  IN [deposited |-> toString(totalDeposited), spent |-> toString(totalSpent),
      pending |-> toString(totalPending),
      remaining |-> toString(totalDeposited - totalSpent)]

ProjectBalance(projectId) ==
  LET totalDeposited == BigInt(OrZero(projects[projectId].totalDeposited))[1]
      totalSpent == SumAmounts(KpisUnder(projectId, "paid"))
      totalPending == SumAmounts(KpisUnder(projectId, "approved"))
  IN [deposited |-> toString(totalDeposited), spent |-> toString(totalSpent),
      pending |-> toString(totalPending),
      remaining |-> toString(totalDeposited - totalSpent)]

ProjectBalancesRead(s) ==
  /\ At(s, "project-balances", "read")
  /\ LET myProjects == {p \in DOMAIN projects :
                          projects[p].ownerAddress = reqs[s].address}
         projectBalances == [p \in myProjects |-> ProjectBalance(p)]
     IN Reply(s, 200,
          [projects |-> projectBalances,
           totals |-> [deposited |-> toString(TotalsOf(projectBalances, "deposited")),
                       spent |-> toString(TotalsOf(projectBalances, "spent")),
                       pending |-> toString(TotalsOf(projectBalances, "pending")),
                       remaining |-> toString(TotalsOf(projectBalances, "remaining"))]])
  /\ KeepStore

-----------------------------------------------------------------------------
(* The stores of three projects: p1 and p2 of "0xa", p3 of "0xb".  Role r1 *)
(* of p1 has KPIs k1 and k4, r2 of p2 has k2, r3 of p3 has k3; "0xc" holds *)
(* the three roles and every KPI is somewhere in its life.  No route       *)
(* writes totalDeposited: it is the column's default.                      *)

LedgerKpis == {"k1", "k2", "k3", "k4"}

LedgerRole == [k \in LedgerKpis |-> IF k = "k2" THEN "r2" ELSE IF k = "k3" THEN "r3" ELSE "r1"]

LedgerAmount ==
  [k \in LedgerKpis |->
     IF k = "k1" THEN <<"1", "0", "0", "0">>
     ELSE IF k = "k2" THEN <<"0", "2", "5", "0">>
     ELSE IF k = "k3" THEN <<"3", "0">> ELSE <<"7">>]

InitLedger ==
  /\ users = [a \in Callers |-> [nonce |-> [n |-> 0, ts |-> 0]]]
  /\ nonceCtr = 0
  /\ now = 1
  /\ issued = {}
  /\ authLog = <<>>
  /\ tokens = {}
  /\ env = ConfiguredEnv
  /\ InitVault
  /\ projects = [p \in {"p1", "p2", "p3"} |->
                   [ownerAddress |-> IF p = "p3" THEN "0xb" ELSE "0xa",
                    status |-> "in_progress", totalDeposited |-> <<"0">>]]
  /\ idCtr = 3
  /\ roles = [r \in {"r1", "r2", "r3"} |->
                [projectId |-> IF r = "r1" THEN "p1" ELSE IF r = "r2" THEN "p2" ELSE "p3",
                 kpiCount |-> IF r = "r1" THEN 2 ELSE 1,
                 paymentPerKpi |-> <<"1", "0", "0", "0">>, status |-> "assigned"]]
  /\ applications =
       [a \in {"ap1", "ap2", "ap3"} |->
          [projectRoleId |-> IF a = "ap1" THEN "r1" ELSE IF a = "ap2" THEN "r2" ELSE "r3",
           freelancerAddress |-> "0xc", status |-> "accepted"]]
  /\ assignments =
       [a \in {1, 2, 3} |->
          [projectRoleId |-> IF a = 1 THEN "r1" ELSE IF a = 2 THEN "r2" ELSE "r3",
           freelancerAddress |-> "0xc", status |-> "active"]]
  /\ \E life \in [LedgerKpis -> {"pending", "submitted", "approved", "paid"}] :
       kpis = [k \in LedgerKpis |->
                 [NewKpi(LedgerRole[k], IF k = "k4" THEN 2 ELSE 1, LedgerAmount[k]) EXCEPT
                    !.assignmentId = IF LedgerRole[k] = "r1" THEN 1
                                     ELSE IF LedgerRole[k] = "r2" THEN 2 ELSE 3,
                    !.status = life[k]]]
  /\ reqs = [s \in Slots |-> IdleReq]

NextLedger ==
  \E s \in Slots :
    \/ \E address \in Callers : StoreStart(s, "project-balances", address, "", NoBody)
    \/ ProjectBalancesRead(s)

SpecLedger == InitLedger /\ [][NextLedger]_vars

\* What the KPIs of project p in the status are worth together.
WorthUnder(p, status) ==
  (IF "k1" \in KpisUnder(p, status) THEN 1000 ELSE 0)
    + (IF "k2" \in KpisUnder(p, status) THEN 250 ELSE 0)
    + (IF "k3" \in KpisUnder(p, status) THEN 30 ELSE 0)
    + (IF "k4" \in KpisUnder(p, status) THEN 7 ELSE 0)

OwnedBy(address) == {p \in DOMAIN projects : projects[p].ownerAddress = address}

\* C32: the answer to GET /users/me/project-balances has one entry per
\* project of the caller; its spent is what the project's paid KPIs are
\* worth, its pending what the approved ones are worth, its remaining the
\* deposit less spent; each total is the sum of that field over the
\* caller's projects.
C32_ProjectBalances ==
  \A s \in Slots : (reqs[s].op = "project-balances" /\ reqs[s].pc = "done") =>
    LET json == reqs[s].snap[1]
        mine == OwnedBy(reqs[s].address)
    IN /\ reqs[s].status = 200
       /\ DOMAIN json.projects = mine
       /\ \A p \in mine :
            /\ BigInt(json.projects[p].deposited) = <<0>>
            /\ BigInt(json.projects[p].spent) = <<WorthUnder(p, "paid")>>
            /\ BigInt(json.projects[p].pending) = <<WorthUnder(p, "approved")>>
            /\ BigInt(json.projects[p].remaining) = <<0 - WorthUnder(p, "paid")>>
       /\ BigInt(json.totals.deposited) = <<0>>
       /\ BigInt(json.totals.spent) =
            <<(IF "p1" \in mine THEN WorthUnder("p1", "paid") ELSE 0)
                + (IF "p2" \in mine THEN WorthUnder("p2", "paid") ELSE 0)
                + (IF "p3" \in mine THEN WorthUnder("p3", "paid") ELSE 0)>>
       /\ BigInt(json.totals.pending) =
            <<(IF "p1" \in mine THEN WorthUnder("p1", "approved") ELSE 0)
                + (IF "p2" \in mine THEN WorthUnder("p2", "approved") ELSE 0)
                + (IF "p3" \in mine THEN WorthUnder("p3", "approved") ELSE 0)>>
       /\ BigInt(json.totals.remaining) =
            <<0 - ((IF "p1" \in mine THEN WorthUnder("p1", "paid") ELSE 0)
                     + (IF "p2" \in mine THEN WorthUnder("p2", "paid") ELSE 0)
                     + (IF "p3" \in mine THEN WorthUnder("p3", "paid") ELSE 0))>>

\* "0xa" has paid k1 and k2, in two projects, and approved k4; k3, paid
\* too, is in the project of "0xb".  The totals of "0xa": spent "1250",
\* pending "7", remaining "-1250".
C32_Witness ==
  /\ reqs[1].op = "project-balances" /\ reqs[1].pc = "done" /\ reqs[1].address = "0xa"
  /\ reqs[1].snap[1].totals.spent = <<"1", "2", "5", "0">>
  /\ reqs[1].snap[1].totals.pending = <<"7">>
  /\ reqs[1].snap[1].totals.remaining = <<"-", "1", "2", "5", "0">>
  /\ kpis["k3"].status = "paid"

-----------------------------------------------------------------------------
(* POST /projects                                                          *)

NewProjectBodies == { [title |-> "shop"] }

\* Variant: the new project is open at once.
ProjectCreateAsOpen(s) ==
  /\ At(s, "project-create", "read")
  /\ idCtr' = idCtr + 1
  /\ IF reqs[s].address \in DOMAIN users
     THEN /\ projects' = Put(projects, nanoid,
                             [ownerAddress |-> reqs[s].address,
                              title |-> reqs[s].body.title, status |-> "open"])
          /\ Answer(s, 201)
     ELSE /\ projects' = projects
          /\ Answer(s, 500)
  /\ UNCHANGED <<authVars, vaultVars, roles, applications, assignments, kpis>>

\* The owner must be a user (projects.ownerAddress references users.address).
ProjectCreate(s) ==
  /\ At(s, "project-create", "read")
  /\ idCtr' = idCtr + 1
  /\ IF reqs[s].address \in DOMAIN users
     THEN /\ projects' = Put(projects, nanoid,
                             [ownerAddress |-> reqs[s].address,
                              title |-> reqs[s].body.title, status |-> "draft"])
          /\ Answer(s, 201)
     ELSE /\ projects' = projects
          /\ Answer(s, 500)
  /\ UNCHANGED <<authVars, vaultVars, roles, applications, assignments, kpis>>

-----------------------------------------------------------------------------
(* The happy path, from the empty store.  Owner "0xa" works in slot 1 and  *)
(* freelancer "0xb" in slot 2, each sending the next request when the      *)
(* answer to the last has come and the store is ready for it; "0xb" signs  *)
(* in at any time before applying.                                         *)

\* The tokens that open a session for the address now.
Session(address) ==
  {t \in tokens : verifyToken(t) # <<>> /\ verifyToken(t)[1].address = address}

Bearer(t) == <<"Bearer ", t>>

\* The first KPI of a role: the one with kpiNumber 1.
FirstKpis == {k \in DOMAIN kpis : kpis[k].kpiNumber = 1}

LoginStep(s, wallet) ==
  \/ /\ wallet \notin DOMAIN users /\ Free(s)
     /\ reqs' = [reqs EXCEPT ![s] = NewReq("nonce", wallet, "", NoBody)]
     /\ KeepStore
  \/ /\ wallet \in DOMAIN users /\ Session(wallet) = {} /\ Free(s)
     /\ reqs' = [reqs EXCEPT ![s] =
                   NewReq("verify", wallet, "",
                          Sign(wallet, recreateMessage(users[wallet].nonce, wallet)))]
     /\ KeepStore

OwnerStep ==
  \E t \in Session("0xa") :
    \/ /\ DOMAIN projects = {}
       /\ \E body \in NewProjectBodies :
            ProtectedStart(1, Bearer(t), "project-create", "", body)
    \/ /\ DOMAIN roles = {}
       /\ \E p \in DOMAIN projects : \E body \in NewRoleBodies :
            ProtectedStart(1, Bearer(t), "role-add", p, body)
    \/ /\ DOMAIN kpis = {}
       /\ \E r \in DOMAIN roles :
            ProtectedStart(1, Bearer(t), "kpi-create", "",
                           [projectId |-> roles[r].projectId, roleId |-> r,
                            kpis |-> <<Descriptor(1), Descriptor(2)>>])
    \/ /\ DOMAIN assignments = {}
       /\ \E a \in DOMAIN applications :
            ProtectedStart(1, Bearer(t), "accept", a, NoBody)
    \/ \E k \in FirstKpis :
         /\ kpis[k].status = "submitted"
         /\ \E body \in ApproveBodies : ProtectedStart(1, Bearer(t), "approve", k, body)

FreelancerStep ==
  \E t \in Session("0xb") :
    \/ /\ DOMAIN applications = {} /\ DOMAIN kpis # {}
       /\ \E r \in DOMAIN roles : \E body \in ApplyBodies :
            ProtectedStart(2, Bearer(t), "apply", r, body)
    \/ \E k \in FirstKpis :
         /\ kpis[k].status = "pending"
         /\ roles[kpis[k].projectRoleId].status = "assigned"
         /\ \E body \in SubmitBodies : ProtectedStart(2, Bearer(t), "submit", k, body)
    \/ \E k \in FirstKpis :
         /\ kpis[k].status = "approved"
         /\ ProtectedStart(2, Bearer(t), "confirm", k, NoBody)

HappyHandlers(s) ==
  \/ NonceRead(s) \/ NonceWrite(s)
  \/ VerifyRead(s) \/ VerifyCheck(s) \/ VerifyRotate(s) \/ VerifyToken(s)
  \/ authMiddleware(s)
  \/ ProjectCreate(s)
  \/ RoleAddRead(s) \/ RoleAddInsert(s)
  \/ KpiCreateReadProject(s) \/ KpiCreateReadRole(s)
  \/ KpiCreateReadKpis(s) \/ KpiCreateInsert(s)
  \/ ApplyStep(s) \/ AcceptStep(s)
  \/ SubmitRead(s) \/ SubmitWrite(s)
  \/ ApproveRead(s) \/ ApproveWrite(s)
  \/ ConfirmRead(s) \/ ConfirmWrite(s)

NextHappy ==
  \/ LoginStep(1, "0xa") \/ LoginStep(2, "0xb")
  \/ OwnerStep \/ FreelancerStep
  \/ \E s \in Slots : HappyHandlers(s)

SpecHappy == InitAuth /\ [][NextHappy]_vars

\* Every request that can take a step does so in the end.
SpecHappyLive == SpecHappy /\ WF_vars(NextHappy)

Succeeded == \A s \in Slots : reqs[s].pc = "done" => reqs[s].status \in {200, 201}

HappyEnd ==
  /\ \A s \in Slots : reqs[s].pc = "done"
  /\ Cardinality(DOMAIN projects) = 1 /\ Cardinality(DOMAIN roles) = 1
  /\ Cardinality(DOMAIN assignments) = 1 /\ Cardinality(DOMAIN kpis) = 2
  /\ \A r \in DOMAIN roles : roles[r].status = "assigned" /\ roles[r].kpiCount = 2
  /\ \A a \in DOMAIN assignments : assignments[a].freelancerAddress = "0xb"
  /\ \A k \in DOMAIN kpis :
       /\ kpis[k].assignmentId \in DOMAIN assignments
       /\ kpis[k].status = IF kpis[k].kpiNumber = 1 THEN "paid" ELSE "pending"

\* C33: on the happy path every request is answered with success, the
\* project is created as a draft, and the path ends with one assignment,
\* both KPIs linked to it, the role assigned, KPI 1 paid and KPI 2 pending.
C33_HappyPath ==
  /\ [](Succeeded /\ \A p \in DOMAIN projects : projects[p].status = "draft")
  /\ <>[]HappyEnd

C33_Witness ==
  /\ HappyEnd
  /\ reqs[1].op = "approve" /\ reqs[2].op = "confirm"
  /\ Session("0xa") # {} /\ Session("0xb") # {}

-----------------------------------------------------------------------------
(* A project at work.  Owner "0xa" opened project p1 with the roles 1 and  *)
(* 2.  "0xb" applied for role 1 (application 3), the owner created its KPI *)
(* (4) and accepted: assignment 5; "0xb" submitted KPI 4 and the owner     *)
(* approved it.  "0xc" has applied for role 2 (application 6), which has   *)
(* no KPI yet.  The roles pay "1000" for a KPI.                            *)

InitLifecycle ==
  /\ users = [a \in Callers |-> [nonce |-> [n |-> 0, ts |-> 0]]]
  /\ nonceCtr = 0
  /\ now = 1
  /\ issued = {}
  /\ authLog = <<>>
  /\ tokens = {}
  /\ env = ConfiguredEnv
  /\ InitVault
  /\ projects = [p \in {"p1"} |->
                   [ownerAddress |-> "0xa", title |-> "t0", status |-> "open"]]
  /\ idCtr = 6
  /\ roles = [r \in {1, 2} |->
                [projectId |-> "p1", kpiCount |-> 1,
                 paymentPerKpi |-> <<"1", "0", "0", "0">>,
                 status |-> IF r = 1 THEN "assigned" ELSE "open"]]
  /\ applications =
       [a \in {3, 6} |->
          [projectRoleId |-> IF a = 3 THEN 1 ELSE 2,
           freelancerAddress |-> IF a = 3 THEN "0xb" ELSE "0xc",
           status |-> IF a = 3 THEN "accepted" ELSE "pending",
           coverLetter |-> "I would like to take this role"]]
  /\ assignments = [a \in {5} |->
                      [projectRoleId |-> 1, freelancerAddress |-> "0xb",
                       status |-> "active"]]
  /\ kpis = [k \in {4} |->
               [NewKpi(1, 1, <<"1", "0", "0", "0">>) EXCEPT
                  !.assignmentId = 5, !.status = "approved",
                  !.submissionData = "report", !.submittedAt = 1,
                  !.reviewedAt = 1]]
  /\ reqs = [s \in Slots |-> IdleReq]

\* The owner sets a role of p1 to open again.
RoleReopenings ==
  { [projectId |-> "p1", roleId |-> r, status |-> <<"open">>,
     kpiCount |-> <<>>, paymentPerKpi |-> <<>>] : r \in {1, 2} }

LifecycleStart(s) ==
  \/ \E address \in {"0xb", "0xc"} : \E roleId \in DOMAIN roles : \E body \in ApplyBodies :
       idCtr + 1 <= 6 + MaxIds /\ StoreStart(s, "apply", address, roleId, body)
  \/ \E id \in DOMAIN applications :
       idCtr + 1 <= 6 + MaxIds /\ StoreStart(s, "accept", "0xa", id, NoBody)
  \/ \E id \in DOMAIN applications :
       StoreStart(s, "reject-application", "0xa", id, NoBody)
  \/ \E body \in RoleReopenings : StoreStart(s, "role-update", "0xa", "", body)
  \/ \E body \in ProjectBodies : StoreStart(s, "project-update", "0xa", "p1", body)
  \/ StoreStart(s, "cancel", "0xa", "p1", NoBody)
  \/ StoreStart(s, "project-delete", "0xa", "p1", NoBody)
  \/ idCtr + 1 <= 6 + MaxIds
       /\ StoreStart(s, "kpi-create", "0xa", "",
                     [projectId |-> "p1", roleId |-> 2, kpis |-> <<Descriptor(1)>>])
  \/ \E id \in DOMAIN kpis : StoreStart(s, "confirm", "0xb", id, NoBody)
  \/ \E address \in {"0xb", "0xc"} : StoreStart(s, "balance", address, "", NoBody)

LifecycleStep(s) ==
  \/ ApplyStep(s) \/ AcceptStep(s)
  \/ RejectApplicationRead(s) \/ RejectApplicationWrite(s)
  \/ ProjectStep(s)
  \/ ProjectUpdateRead(s) \/ ProjectUpdateWrite(s)
  \/ ProjectDeleteRead(s) \/ ProjectDeleteWrite(s)
  \/ KpiCreateReadProject(s) \/ KpiCreateReadRole(s)
  \/ KpiCreateReadKpis(s) \/ KpiCreateInsert(s)
  \/ ConfirmRead(s) \/ ConfirmWrite(s)
  \/ BalanceReadAssignments(s) \/ BalanceReadKpis(s)

\* The requests of the owner and of the two freelancers, one at a time.
NextLifecycle == (InFlight = {} /\ LifecycleStart(1)) \/ LifecycleStep(1)

SpecLifecycle == InitLifecycle /\ [][NextLifecycle]_vars

-----------------------------------------------------------------------------
(* Claims about a project at work.                                         *)

\* C34: when no request is in flight, every role has at most one
\* assignment and at most one accepted application.
C34_OneAssignmentPerRole ==
  InFlight = {} =>
    \A r \in DOMAIN roles :
      /\ Cardinality(AssignmentsOf(r)) <= 1
      /\ Cardinality(ApplicationsIn(r, "accepted")) <= 1

\* C35: every KPI of an assigned role is linked to an assignment of that
\* role.
C35_AssignedRolesHaveLinkedKpis ==
  \A r \in DOMAIN roles :
    roles[r].status = "assigned" =>
      \A k \in RowsOfRoles(kpis, {r}) : kpis[k].assignmentId \in AssignmentsOf(r)

\* What GET /users/me/balance computes as totalEarned for the freelancer.
totalEarned(freelancer) ==
  LET assignmentIds == {a \in DOMAIN assignments :
                          assignments[a].freelancerAddress = freelancer}
  IN SumAmounts({k \in DOMAIN kpis :
                   /\ kpis[k].assignmentId \in assignmentIds
                   /\ kpis[k].status \in {"approved", "paid"}})

\* C37: no step makes the totalEarned of a freelancer smaller, and a KPI
\* counted for a freelancer stays counted for them.
C37_EarningsNeverShrink ==
  [][\A F \in {"0xb", "0xc"} :
       /\ totalEarned(F)' >= totalEarned(F)
       /\ KpisOf(F, {"approved", "paid"}) \subseteq KpisOf(F, {"approved", "paid"})']_vars

\* Project p is cancelled.
Cancelled(p) == p \in DOMAIN projects /\ projects[p].status = "cancelled"

\* C38: while project p1 is cancelled, no application for one of its roles
\* is created or becomes accepted and no assignment is created under it.
C38_CancellationStopsNewWork ==
  [][(Cancelled("p1") /\ Cancelled("p1")') =>
       /\ DOMAIN applications' \subseteq DOMAIN applications
       /\ DOMAIN assignments' \subseteq DOMAIN assignments
       /\ \A a \in DOMAIN applications' :
            applications'[a].status = "accepted" => applications[a].status = "accepted"]_vars

\* C39: a project that is cancelled or completed keeps its status, and a
\* cancel request for it is answered 400 and changes nothing.
C39_EndedStaysEnded ==
  [][\A p \in DOMAIN projects :
       projects[p].status \in {"cancelled", "completed"} =>
         /\ p \in DOMAIN projects' => projects'[p].status = projects[p].status
         /\ \A s \in Slots :
              (At(s, "cancel", "read") /\ reqs[s].target = p /\ reqs'[s] # reqs[s]
               /\ reqs[s].address = projects[p].ownerAddress) =>
                Answered(s, 400) /\ storeVars' = storeVars]_vars

-----------------------------------------------------------------------------
(* The ways to paid.                                                       *)

\* KPI k becomes paid, or approved, in this step.
Becomes(k, status) ==
  /\ k \in DOMAIN kpis /\ k \in DOMAIN kpis'
  /\ kpis[k].status # status /\ kpis'[k].status = status

\* The step is the write of request s, an op for KPI k sent by address.
WriteOf(s, op, k, address) ==
  /\ Writes(s) /\ reqs[s].op = op
  /\ reqs[s].target = k /\ reqs[s].address = address

\* C36 as claimed: a KPI becomes paid only by the confirm of its assigned
\* freelancer, on a KPI that is approved.
C36_PaidNeedsBothParties ==
  [][\A k \in DOMAIN kpis : Becomes(k, "paid") =>
       /\ kpis[k].status = "approved"
       /\ Assigned(k)
       /\ \E s \in Slots : WriteOf(s, "confirm", k, FreelancerOf(k))]_vars

\* C36 amended: a KPI becomes approved only by the approve of the owner of
\* its project, on a submitted KPI; it becomes paid only by the confirm of
\* its assigned freelancer on an approved KPI, or by the record-payout of
\* the owner of its project.
C36_PaidByConfirmOrPayout ==
  [][\A k \in DOMAIN kpis :
       /\ Becomes(k, "approved") =>
            /\ kpis[k].status = "submitted"
            /\ \E s \in Slots : WriteOf(s, "approve", k, OwnerOf(k))
       /\ Becomes(k, "paid") =>
            \/ /\ kpis[k].status = "approved"
               /\ Assigned(k)
               /\ \E s \in Slots : WriteOf(s, "confirm", k, FreelancerOf(k))
            \/ \E s \in Slots : WriteOf(s, "record-payout", k, OwnerOf(k))]_vars

\* The assigned freelancer confirmed KPI k1, which the owner had approved.
C36_Witness ==
  /\ reqs[1].op = "confirm" /\ reqs[1].pc = "done" /\ reqs[1].status = 200
  /\ kpis["k1"].status = "paid" /\ kpis["k1"].payoutTxHash = ""
  /\ kpis["k1"].reviewedAt = now /\ Assigned("k1")

-----------------------------------------------------------------------------
(* lib/contracts: the vault event listeners.  The module's functions have  *)
(* no await in them: each call runs to its end, or to its throw, before    *)
(* anything else runs.                                                     *)

VaultAddresses == {"0xv1", "0xv2"}
VaultEvents == {"Deposited", "KpiApproved", "ProjectCancelled"}

\* The subscriptions that are live for a vault.
WatchesOf(vaultAddress) == {w \in DOMAIN watches : watches[w] = vaultAddress}

\* vault.ts:80-117.  watchContractEvent opens subscription watchCtr + 1 and
\* gives back the function that closes it; subscribeToVaultEvents is an
\* async function, so what its caller gets is a promise of that function.
subscribeToVaultEvents(vaultAddress) ==
  [kind |-> "promise", unwatch |-> watchCtr + 1]

\* Calling a value: a function runs, anything else throws a TypeError.
Callable(value) == value.kind = "function"

\* The subscriptions after unwatch() of the value, where it can be called.
Unwatched(value) == [w \in DOMAIN watches \ {value.unwatch} |-> watches[w]]

Called(op, vaultAddress, threw) ==
  vaultCall' = [op |-> op, vaultAddress |-> vaultAddress, threw |-> threw]

\* Lines 47-53.  What stopVaultListener does to the map and the
\* subscriptions, and whether it throws.
StopEffect(vaultAddress) ==
  IF vaultAddress \notin DOMAIN activeListeners
  THEN [activeListeners |-> activeListeners, watches |-> watches, threw |-> FALSE]
  ELSE IF Callable(activeListeners[vaultAddress])
  THEN [activeListeners |->
          [v \in DOMAIN activeListeners \ {vaultAddress} |-> activeListeners[v]],
        watches |-> Unwatched(activeListeners[vaultAddress]),
        threw |-> FALSE]
  ELSE [activeListeners |-> activeListeners, watches |-> watches, threw |-> TRUE]

stopVaultListener(vaultAddress) ==
  /\ activeListeners' = StopEffect(vaultAddress).activeListeners
  /\ watches' = StopEffect(vaultAddress).watches
  /\ Called("stopVaultListener", vaultAddress, StopEffect(vaultAddress).threw)
  /\ UNCHANGED <<authVars, storeVars, reqs, watchCtr, handled>>

\* Lines 17-42: stop the listener there is, subscribe, store what
\* subscribeToVaultEvents returned.  A throw of the stop ends the call.
startVaultListener(vaultAddress) ==
  LET stopped == StopEffect(vaultAddress)
  IN /\ IF stopped.threw
        THEN /\ activeListeners' = stopped.activeListeners
             /\ watches' = stopped.watches
             /\ watchCtr' = watchCtr
        ELSE /\ watchCtr' = watchCtr + 1
             /\ watches' = [w \in DOMAIN stopped.watches \cup {watchCtr + 1} |->
                              IF w = watchCtr + 1 THEN vaultAddress
                              ELSE stopped.watches[w]]
             /\ activeListeners' =
                  [v \in DOMAIN stopped.activeListeners \cup {vaultAddress} |->
                     IF v = vaultAddress THEN subscribeToVaultEvents(vaultAddress)
                     ELSE stopped.activeListeners[v]]
     /\ Called("startVaultListener", vaultAddress, stopped.threw)
     /\ UNCHANGED <<authVars, storeVars, reqs, handled>>

\* Lines 58-63: unwatch() for every entry, then clear the map.  An entry
\* whose value cannot be called ends the call before the clear; every value
\* startVaultListener stores is a promise, so that entry is the first.
stopAllListeners ==
  /\ IF \E v \in DOMAIN activeListeners : ~Callable(activeListeners[v])
     THEN /\ watches' = watches
          /\ activeListeners' = activeListeners
          /\ Called("stopAllListeners", "", TRUE)
     ELSE /\ watches' = [w \in DOMAIN watches \
                                 {activeListeners[v].unwatch :
                                    v \in DOMAIN activeListeners} |-> watches[w]]
          /\ activeListeners' = <<>>
          /\ Called("stopAllListeners", "", FALSE)
  /\ UNCHANGED <<authVars, storeVars, reqs, watchCtr, handled>>

\* The vault emits an event: onLogs of every live subscription for it runs
\* and calls the handler of the event (vault.ts:91-113, part_006:25-36).
VaultEmits(vaultAddress, event) ==
  /\ WatchesOf(vaultAddress) # {}
  /\ Len(handled) < MaxEvents
  /\ handled' = Append(handled, [vaultAddress |-> vaultAddress, event |-> event,
                                 calls |-> Cardinality(WatchesOf(vaultAddress))])
  /\ UNCHANGED <<authVars, storeVars, reqs, activeListeners, watches, watchCtr,
                 vaultCall>>

NextListeners ==
  \/ \E v \in VaultAddresses : startVaultListener(v)
  \/ \E v \in VaultAddresses : stopVaultListener(v)
  \/ stopAllListeners
  \/ \E v \in VaultAddresses : \E e \in VaultEvents : VaultEmits(v, e)

SpecListeners == InitAuth /\ [][NextListeners]_vars

\* C40: a vault has at most one live subscription; a start for a vault
\* leaves it with the subscription the start opened, and that one alone;
\* after stopVaultListener(v) no subscription for v is live and v is not in
\* the map; after stopAllListeners no subscription is live and the map is
\* empty.
C40_OneLiveSubscription ==
  /\ \A v \in VaultAddresses : Cardinality(WatchesOf(v)) <= 1
  /\ vaultCall.op = "startVaultListener" =>
       /\ ~vaultCall.threw
       /\ WatchesOf(vaultCall.vaultAddress) = {watchCtr}
  /\ vaultCall.op = "stopVaultListener" =>
       /\ WatchesOf(vaultCall.vaultAddress) = {}
       /\ vaultCall.vaultAddress \notin DOMAIN activeListeners
  /\ vaultCall.op = "stopAllListeners" =>
       /\ DOMAIN watches = {}
       /\ DOMAIN activeListeners = {}

====
